---- MODULE Spec2Model ----
(***************************************************************************)
(* Listing-pack generator of the Etsy listing sprint assistant: the input  *)
(* sanitizer, the CSV parsers, the tag builder, the title composer, the    *)
(* template composer, the UK-spelling transform and the score calculator   *)
(* of listing.ts, modelled on strings of characters.                       *)
(*                                                                         *)
(* A string is a TLA+ string; a character is a string of length 1.  The    *)
(* alphabet is ASCII (letters, digits, '&', '-', blank, tab, newline and   *)
(* punctuation) and two characters outside ASCII, U+0130 and U+0307, the   *)
(* one character whose lower-case form is longer than itself and the       *)
(* second character of that form.                                          *)
(***************************************************************************)
EXTENDS Integers, Sequences, FiniteSets, TLC

\* ------------------------------------------------------------------------
\* Program constants
\* ------------------------------------------------------------------------
MAX_KEYWORDS == 16

MAX_MATERIALS == 12

MAX_TAGS == 13

MAX_TITLE_LENGTH == 140

\* default of normalizePhrase's maxLength parameter, and the value every
\* call in sanitizeListingInput passes
MAX_PHRASE_LENGTH == 80

\* pushTag's length limit
MAX_TAG_LENGTH == 20

\* normalizeDays' range
MIN_DAYS == 1

MAX_DAYS == 45

\* ------------------------------------------------------------------------
\* Characters and the string primitives of the runtime
\* ------------------------------------------------------------------------
Lowers == "abcdefghijklmnopqrstuvwxyz"

Uppers == "ABCDEFGHIJKLMNOPQRSTUVWXYZ"

Digits == "0123456789"

\* TLA+ strings are ASCII: in the model's alphabet "^" is U+0130 (capital I with
\* dot above) and "~" is U+0307 (combining dot above); neither occurs as itself
DOTTED_CAPITAL_I == "^"

COMBINING_DOT == "~"

CharAt(s, i) == SubSeq(s, i, i)

CharsOf(s) == {CharAt(s, i) : i \in 1..Len(s)}

LowerSet == CharsOf(Lowers)

UpperSet == CharsOf(Uppers)

DigitSet == CharsOf(Digits)

\* \s of a regular expression, and what String.prototype.trim strips
Whitespace == {" ", "\t", "\n"}

SetMin(S) == CHOOSE x \in S : \A y \in S : x <= y

SetMax(S) == CHOOSE x \in S : \A y \in S : y <= x

MinOf(a, b) == IF a <= b THEN a ELSE b

MaxOf(a, b) == IF a >= b THEN a ELSE b

LowerMap == [c \in UpperSet |-> CharAt(Lowers, CHOOSE i \in 1..26 : CharAt(Uppers, i) = c)]

UpperMap == [c \in LowerSet |-> CharAt(Uppers, CHOOSE i \in 1..26 : CharAt(Lowers, i) = c)]

\* String.prototype.toLowerCase on one character: U+0130 becomes "i" followed
\* by U+0307, the only lower-case form longer than its character
charToLower(c) ==
  IF c \in UpperSet THEN LowerMap[c]
  ELSE IF c = DOTTED_CAPITAL_I THEN "i" \o COMBINING_DOT
  ELSE c

\* the case folding of a regular expression with the i flag (no u flag): a
\* character outside ASCII never folds to an ASCII letter
foldChar(c) == IF c \in UpperSet THEN LowerMap[c] ELSE c

\* s[lo..hi] folded, for the comparison with a lower-case literal pattern
RECURSIVE foldRange(_, _, _)
foldRange(s, lo, hi) ==
  IF lo > hi THEN ""
  ELSE IF lo = hi THEN foldChar(CharAt(s, lo))
  ELSE LET mid == (lo + hi) \div 2
       IN foldRange(s, lo, mid) \o foldRange(s, mid + 1, hi)

charToUpper(c) == IF c \in LowerSet THEN UpperMap[c] ELSE c

RECURSIVE lowerRange(_, _, _)
lowerRange(s, lo, hi) ==
  IF lo > hi THEN ""
  ELSE IF lo = hi THEN charToLower(CharAt(s, lo))
  ELSE LET mid == (lo + hi) \div 2
       IN lowerRange(s, lo, mid) \o lowerRange(s, mid + 1, hi)

\* String.prototype.toLowerCase
toLowerCase(s) == lowerRange(s, 1, Len(s))

\* String.prototype.trim
trim(s) ==
  LET keep == {i \in 1..Len(s) : CharAt(s, i) \notin Whitespace}
      fromEnd == {Len(s) - i : i \in keep}
  IN IF s = "" THEN ""
     ELSE IF CharAt(s, 1) \notin Whitespace /\ CharAt(s, Len(s)) \notin Whitespace THEN s
     ELSE IF keep = {} THEN ""
     ELSE SubSeq(s, SetMin(keep), Len(s) - SetMin(fromEnd))

RECURSIVE collapseRange(_, _, _)
collapseRange(s, lo, hi) ==
  IF lo > hi THEN ""
  ELSE IF lo = hi
    THEN IF CharAt(s, lo) \in Whitespace
           THEN IF lo > 1 /\ CharAt(s, lo - 1) \in Whitespace THEN "" ELSE " "
           ELSE CharAt(s, lo)
  ELSE LET mid == (lo + hi) \div 2
       IN collapseRange(s, lo, mid) \o collapseRange(s, mid + 1, hi)

\* value.replace(/\s+/g, " "): every maximal run of whitespace becomes one blank
collapseWhitespace(s) == collapseRange(s, 1, Len(s))

\* the characters /[^a-z0-9&\-\s]/gi leaves in place
KeywordChars == LowerSet \cup UpperSet \cup DigitSet \cup {"&", "-"} \cup Whitespace

RECURSIVE stripRange(_, _, _)
stripRange(s, lo, hi) ==
  IF lo > hi THEN ""
  ELSE IF lo = hi THEN IF CharAt(s, lo) \in KeywordChars THEN CharAt(s, lo) ELSE ""
  ELSE LET mid == (lo + hi) \div 2
       IN stripRange(s, lo, mid) \o stripRange(s, mid + 1, hi)

\* value.replace(/[^a-z0-9&\-\s]/gi, "")
stripNonKeywordChars(s) == stripRange(s, 1, Len(s))

\* String.prototype.split on a set of one-character separators
RECURSIVE split(_, _)
split(s, seps) ==
  LET hits == {i \in 1..Len(s) : CharAt(s, i) \in seps}
  IN IF hits = {} THEN <<s>>
     ELSE LET i == SetMin(hits)
          IN <<SubSeq(s, 1, i - 1)>> \o split(SubSeq(s, i + 1, Len(s)), seps)

\* Array.prototype.join
RECURSIVE join(_, _)
join(parts, sep) ==
  IF Len(parts) = 0 THEN ""
  ELSE IF Len(parts) = 1 THEN parts[1]
  ELSE parts[1] \o sep \o join(Tail(parts), sep)

\* Array.prototype.filter on a predicate given as the set of rejected values
RECURSIVE dropAll(_, _)
dropAll(parts, rejected) ==
  IF Len(parts) = 0 THEN <<>>
  ELSE IF parts[1] \in rejected THEN dropAll(Tail(parts), rejected)
  ELSE <<parts[1]>> \o dropAll(Tail(parts), rejected)

\* Array.prototype.slice(0, n)
take(xs, n) == SubSeq(xs, 1, MinOf(n, Len(xs)))

\* Array.prototype.includes
includes(xs, x) == \E i \in 1..Len(xs) : xs[i] = x

\* template interpolation of a non-negative integer
RECURSIVE numberToString(_)
numberToString(n) ==
  IF n < 10 THEN CharAt(Digits, n + 1)
  ELSE numberToString(n \div 10) \o CharAt(Digits, (n % 10) + 1)

\* replaceAllIgnoreCase without the g flag: only the first match is replaced
replaceFirstIgnoreCase(s, pattern, replacement) ==
  LET m == Len(pattern)
      first == CharAt(pattern, 1)
      hits == {i \in 1..(Len(s) - m + 1) :
                 /\ foldChar(CharAt(s, i)) = first
                 /\ foldRange(s, i, i + m - 1) = pattern}
  IN IF hits = {} THEN s
     ELSE LET i == SetMin(hits)
          IN SubSeq(s, 1, i - 1) \o replacement \o SubSeq(s, i + m, Len(s))

\* value.replace(/pattern/gi, replacement) for a lower-case literal pattern:
\* leftmost matches first, the scan resuming after each replaced match
RECURSIVE replaceAllIgnoreCase(_, _, _)
replaceAllIgnoreCase(s, pattern, replacement) ==
  LET m == Len(pattern)
      first == CharAt(pattern, 1)
      hits == {i \in 1..(Len(s) - m + 1) :
                 /\ foldChar(CharAt(s, i)) = first
                 /\ foldRange(s, i, i + m - 1) = pattern}
  IN IF hits = {} THEN s
     ELSE LET i == SetMin(hits)
          IN SubSeq(s, 1, i - 1) \o replacement
               \o replaceAllIgnoreCase(SubSeq(s, i + m, Len(s)), pattern, replacement)

\* ------------------------------------------------------------------------
\* Untyped values a caller can pass
\* ------------------------------------------------------------------------
JsString(s) == [t |-> "string", s |-> s, n |-> 0, f |-> 0, b |-> FALSE, a |-> <<>>]

\* the number n + f/10, n its floor
JsNumber(n, f) == [t |-> "number", s |-> "", n |-> n, f |-> f, b |-> FALSE, a |-> <<>>]

JsBoolean(b) == [t |-> "boolean", s |-> "", n |-> 0, f |-> 0, b |-> b, a |-> <<>>]

JsUndefined == [t |-> "undefined", s |-> "", n |-> 0, f |-> 0, b |-> FALSE, a |-> <<>>]

\* an array; its items are [t |-> type, s |-> text]
JsArray(items) == [t |-> "array", s |-> "", n |-> 0, f |-> 0, b |-> FALSE, a |-> items]

StringItem(s) == [t |-> "string", s |-> s]

NumberItem == [t |-> "number", s |-> ""]

RECURSIVE StringItems(_)
StringItems(xs) ==
  IF Len(xs) = 0 THEN <<>> ELSE <<StringItem(xs[1])>> \o StringItems(Tail(xs))

JsStringArray(xs) == JsArray(StringItems(xs))

\* outcome of a call that returns a value or throws
Returned(v) == [ok |-> TRUE, err |-> "", val |-> v]

Thrown(code, dummy) == [ok |-> FALSE, err |-> code, val |-> dummy]

\* calling a string method on a value that is not a string
TYPE_ERROR == "TypeError"

\* ------------------------------------------------------------------------
\* Normalizers (listing.ts)
\* ------------------------------------------------------------------------
normalizePhrase(value, key, maxLength) ==
  IF value.t # "string" THEN Thrown(TYPE_ERROR, "")
  ELSE LET trimmed == collapseWhitespace(trim(value.s))
       IN IF trimmed = "" \/ Len(trimmed) > maxLength
            THEN Thrown("invalid_" \o key, "")
            ELSE Returned(trimmed)

normalizeKeyword(value) ==
  trim(collapseWhitespace(stripNonKeywordChars(toLowerCase(trim(value)))))

normalizeBoolean(value) == value.t = "boolean" /\ value.b

\* normalizeDays with the lower limit off by one
normalizeDaysFromZero(value) ==
  IF value.t # "number" \/ value.f # 0 \/ value.n < 0 \/ value.n > MAX_DAYS
    THEN Thrown("invalid_processingTimeDays", 0)
    ELSE Returned(value.n)

normalizeDays(value) ==
  IF value.t # "number" \/ value.f # 0 \/ value.n < MIN_DAYS \/ value.n > MAX_DAYS
    THEN Thrown("invalid_processingTimeDays", 0)
    ELSE Returned(value.n)

ListingTones == {"playful", "minimal", "luxury", "warm"}

\* normalizeTone without the trim
normalizeToneNoTrim(value) ==
  IF value.t # "string" THEN Thrown(TYPE_ERROR, "")
  ELSE LET tone == toLowerCase(value.s)
       IN IF tone \in ListingTones THEN Returned(tone) ELSE Thrown("invalid_tone", "")

normalizeTone(value) ==
  IF value.t # "string" THEN Thrown(TYPE_ERROR, "")
  ELSE LET tone == toLowerCase(trim(value.s))
       IN IF tone \in ListingTones THEN Returned(tone) ELSE Thrown("invalid_tone", "")

\* dedupeLoop without the test for an empty normalized entry
RECURSIVE dedupeLoopKeepEmpty(_, _, _, _, _)
dedupeLoopKeepEmpty(items, i, result, maxCount, key) ==
  IF i > Len(items) THEN Returned(result)
  ELSE IF items[i].t # "string" THEN Thrown("invalid_" \o key, <<>>)
  ELSE LET normalized == normalizeKeyword(items[i].s)
       IN IF includes(result, normalized)
            THEN dedupeLoopKeepEmpty(items, i + 1, result, maxCount, key)
            ELSE LET pushed == Append(result, normalized)
                 IN IF Len(pushed) >= maxCount
                      THEN Returned(pushed)
                      ELSE dedupeLoopKeepEmpty(items, i + 1, pushed, maxCount, key)

\* dedupeLoop that stops one entry late
RECURSIVE dedupeLoopOneMore(_, _, _, _, _)
dedupeLoopOneMore(items, i, result, maxCount, key) ==
  IF i > Len(items) THEN Returned(result)
  ELSE IF items[i].t # "string" THEN Thrown("invalid_" \o key, <<>>)
  ELSE LET normalized == normalizeKeyword(items[i].s)
       IN IF normalized = "" \/ includes(result, normalized)
            THEN dedupeLoopOneMore(items, i + 1, result, maxCount, key)
            ELSE LET pushed == Append(result, normalized)
                 IN IF Len(pushed) > maxCount
                      THEN Returned(pushed)
                      ELSE dedupeLoopOneMore(items, i + 1, pushed, maxCount, key)

\* the for-of loop of dedupePhrases from item i on; result holds what was
\* pushed so far (the seen set is the set of its entries)
RECURSIVE dedupeLoop(_, _, _, _, _)
dedupeLoop(items, i, result, maxCount, key) ==
  IF i > Len(items) THEN Returned(result)
  ELSE IF items[i].t # "string" THEN Thrown("invalid_" \o key, <<>>)
  ELSE LET normalized == normalizeKeyword(items[i].s)
       IN IF normalized = "" \/ includes(result, normalized)
            THEN dedupeLoop(items, i + 1, result, maxCount, key)
            ELSE LET pushed == Append(result, normalized)
                 IN IF Len(pushed) >= maxCount
                      THEN Returned(pushed)
                      ELSE dedupeLoop(items, i + 1, pushed, maxCount, key)

dedupePhrases(values, maxCount, key) ==
  IF values.t # "array" THEN Thrown("invalid_" \o key, <<>>)
  ELSE dedupeLoop(values.a, 1, <<>>, maxCount, key)

\* ------------------------------------------------------------------------
\* sanitizeListingInput
\* ------------------------------------------------------------------------
\* placeholder carried by a failed call; never read as a ListingInput
NoInput ==
  [shopName |-> "", productType |-> "", targetAudience |-> "", primaryKeyword |-> "",
   supportingKeywords |-> <<>>, materials |-> <<>>, tone |-> "", priceBand |-> "",
   processingTimeDays |-> 0, personalization |-> FALSE, includeUkSpelling |-> FALSE]

sanitizeListingInput(input) ==
  LET shopName == normalizePhrase(input.shopName, "shopName", MAX_PHRASE_LENGTH)
      productType == normalizePhrase(input.productType, "productType", MAX_PHRASE_LENGTH)
      targetAudience == normalizePhrase(input.targetAudience, "targetAudience", MAX_PHRASE_LENGTH)
      primaryPhrase == normalizePhrase(input.primaryKeyword, "primaryKeyword", MAX_PHRASE_LENGTH)
      primaryKeyword == normalizeKeyword(primaryPhrase.val)
      supportingKeywords == dedupePhrases(input.supportingKeywords, MAX_KEYWORDS, "supportingKeywords")
      materials == dedupePhrases(input.materials, MAX_MATERIALS, "materials")
      tone == normalizeTone(input.tone)
      priceBand == normalizePhrase(input.priceBand, "priceBand", MAX_PHRASE_LENGTH)
      processingTimeDays == normalizeDays(input.processingTimeDays)
  IN IF ~shopName.ok THEN Thrown(shopName.err, NoInput)
     ELSE IF ~productType.ok THEN Thrown(productType.err, NoInput)
     ELSE IF ~targetAudience.ok THEN Thrown(targetAudience.err, NoInput)
     ELSE IF ~primaryPhrase.ok THEN Thrown(primaryPhrase.err, NoInput)
     ELSE IF primaryKeyword = "" THEN Thrown("invalid_primaryKeyword", NoInput)
     ELSE IF ~supportingKeywords.ok THEN Thrown(supportingKeywords.err, NoInput)
     ELSE IF Len(supportingKeywords.val) = 0 THEN Thrown("invalid_supportingKeywords", NoInput)
     ELSE IF ~materials.ok THEN Thrown(materials.err, NoInput)
     ELSE IF ~tone.ok THEN Thrown(tone.err, NoInput)
     ELSE IF ~priceBand.ok THEN Thrown(priceBand.err, NoInput)
     ELSE IF ~processingTimeDays.ok THEN Thrown(processingTimeDays.err, NoInput)
     ELSE Returned(
       [shopName |-> shopName.val,
        productType |-> toLowerCase(productType.val),
        targetAudience |-> toLowerCase(targetAudience.val),
        primaryKeyword |-> primaryKeyword,
        supportingKeywords |-> supportingKeywords.val,
        materials |-> materials.val,
        tone |-> tone.val,
        priceBand |-> priceBand.val,
        processingTimeDays |-> processingTimeDays.val,
        personalization |-> normalizeBoolean(input.personalization),
        includeUkSpelling |-> normalizeBoolean(input.includeUkSpelling)])

\* ------------------------------------------------------------------------
\* parseKeywordCsv / parseMaterialsCsv
\* ------------------------------------------------------------------------
RECURSIVE mapNormalizeKeyword(_)
mapNormalizeKeyword(parts) ==
  IF Len(parts) = 0 THEN <<>>
  ELSE <<normalizeKeyword(parts[1])>> \o mapNormalizeKeyword(Tail(parts))

\* csvValues splitting on commas only
csvValuesCommaOnly(csvText) == dropAll(mapNormalizeKeyword(split(csvText, {","})), {""})

\* csvText.split(/[\n,]/g).map(normalizeKeyword).filter(length > 0)
csvValues(csvText) == dropAll(mapNormalizeKeyword(split(csvText, {"\n", ","})), {""})

parseKeywordCsv(csvText) ==
  IF csvText.t # "string" THEN Thrown("invalid_keywordsCsv", <<>>)
  ELSE LET values == csvValues(csvText.s)
       IN IF Len(values) = 0 THEN Thrown("invalid_keywordsCsv", <<>>)
          ELSE dedupePhrases(JsStringArray(values), MAX_KEYWORDS, "supportingKeywords")

parseMaterialsCsv(csvText) ==
  IF csvText.t # "string" THEN Thrown("invalid_materialsCsv", <<>>)
  ELSE dedupePhrases(JsStringArray(csvValues(csvText.s)), MAX_MATERIALS, "materials")

\* ------------------------------------------------------------------------
\* Title composer
\* ------------------------------------------------------------------------
RECURSIVE mapTrim(_)
mapTrim(parts) ==
  IF Len(parts) = 0 THEN <<>> ELSE <<trim(parts[1])>> \o mapTrim(Tail(parts))

\* the for-of loop of compactTitle from part i on, with its break
\* the loop of compactTitle with continue in the place of break
RECURSIVE compactLoopSkipping(_, _, _)
compactLoopSkipping(filtered, i, title) ==
  IF i > Len(filtered) THEN title
  ELSE LET candidate == IF title # "" THEN title \o " | " \o filtered[i] ELSE filtered[i]
       IN IF Len(candidate) > MAX_TITLE_LENGTH
            THEN compactLoopSkipping(filtered, i + 1, title)
            ELSE compactLoopSkipping(filtered, i + 1, candidate)

RECURSIVE compactLoop(_, _, _)
compactLoop(filtered, i, title) ==
  IF i > Len(filtered) THEN title
  ELSE LET candidate == IF title # "" THEN title \o " | " \o filtered[i] ELSE filtered[i]
       IN IF Len(candidate) > MAX_TITLE_LENGTH
            THEN title
            ELSE compactLoop(filtered, i + 1, candidate)

compactTitle(parts) ==
  LET filtered == dropAll(mapTrim(parts), {""})
      title == compactLoop(filtered, 1, "")
  IN IF title # "" THEN title
     ELSE IF Len(filtered) > 0 THEN filtered[1]
     ELSE "Etsy listing"

RECURSIVE mapCapitalize(_)
mapCapitalize(words) ==
  IF Len(words) = 0 THEN <<>>
  ELSE <<charToUpper(CharAt(words[1], 1)) \o SubSeq(words[1], 2, Len(words[1]))>>
         \o mapCapitalize(Tail(words))

toTitleCase(value) == join(mapCapitalize(dropAll(split(value, {" "}), {""})), " ")

\* ------------------------------------------------------------------------
\* Tag builder
\* ------------------------------------------------------------------------
\* pushTag without the length limit
pushTagAnyLength(tags, candidate) ==
  LET normalized == normalizeKeyword(candidate)
  IN IF normalized = "" THEN tags
     ELSE IF includes(tags, normalized) THEN tags
     ELSE IF Len(tags) >= MAX_TAGS THEN tags
     ELSE Append(tags, normalized)

pushTag(tags, candidate) ==
  LET normalized == normalizeKeyword(candidate)
  IN IF normalized = "" THEN tags
     ELSE IF Len(normalized) > MAX_TAG_LENGTH THEN tags
     ELSE IF includes(tags, normalized) THEN tags
     ELSE IF Len(tags) >= MAX_TAGS THEN tags
     ELSE Append(tags, normalized)

\* the pushTag calls of buildTags, one per phrase; pushTag leaves a full list
\* as it is, so the walk ends there
RECURSIVE pushAll(_, _)
pushAll(tags, phrases) ==
  IF Len(phrases) = 0 \/ Len(tags) >= MAX_TAGS THEN tags
  ELSE pushAll(pushTag(tags, phrases[1]), Tail(phrases))

\* input.primaryKeyword.split(" ").filter((word) => word.length >= 3)
RECURSIVE longWords(_)
longWords(words) ==
  IF Len(words) = 0 THEN <<>>
  ELSE IF Len(words[1]) >= 3 THEN <<words[1]>> \o longWords(Tail(words))
  ELSE longWords(Tail(words))

\* the three candidates pushed for each word, in the loop's order
RECURSIVE wordCandidates(_)
wordCandidates(words) ==
  IF Len(words) = 0 THEN <<>>
  ELSE <<words[1], words[1] \o " decor", words[1] \o " idea">> \o wordCandidates(Tail(words))

\* a fallback list of two phrases
fallbackTagsShort == <<"small business", "handmade">>

fallbackTags ==
  <<"small business", "handmade", "gift for her", "gift for him", "home decor", "custom order">>

basePool(input) ==
  <<input.primaryKeyword>> \o input.supportingKeywords \o
  <<input.productType \o " gift",
    input.targetAudience \o " gift",
    input.productType,
    input.targetAudience,
    IF input.personalization THEN "personalized gift" ELSE "ready to ship",
    "etsy seller">>

\* tagPool with the fallback phrases offered before the words of the keyword
tagPoolFallbackFirst(input) ==
  basePool(input) \o fallbackTags \o wordCandidates(longWords(split(input.primaryKeyword, {" "})))

\* every candidate buildTags offers to pushTag, in order
tagPool(input) ==
  basePool(input) \o wordCandidates(longWords(split(input.primaryKeyword, {" "}))) \o fallbackTags

buildTags(input) == take(pushAll(<<>>, tagPool(input)), MAX_TAGS)

\* ------------------------------------------------------------------------
\* Tone, UK spelling, score
\* ------------------------------------------------------------------------
toneLine(tone) ==
  IF tone = "playful" THEN "written with energetic, friendly language and quick-read rhythm"
  ELSE IF tone = "minimal" THEN "kept clean, concise, and practical for fast scanning"
  ELSE IF tone = "luxury" THEN "framed with premium cues and elevated craftsmanship language"
  ELSE "balanced for warmth, clarity, and trust"

\* britishSpelling without the favorite -> favourite replacement
britishSpellingFourWords(value, enabled) ==
  IF ~enabled THEN value
  ELSE replaceAllIgnoreCase(
         replaceAllIgnoreCase(
           replaceAllIgnoreCase(
             replaceAllIgnoreCase(value, "color", "colour"),
             "customization", "customisation"),
           "personalization", "personalisation"),
         "organize", "organise")

britishSpelling(value, enabled) ==
  IF ~enabled THEN value
  ELSE replaceAllIgnoreCase(
         replaceAllIgnoreCase(
           replaceAllIgnoreCase(
             replaceAllIgnoreCase(
               replaceAllIgnoreCase(value, "color", "colour"),
               "favorite", "favourite"),
             "customization", "customisation"),
           "personalization", "personalisation"),
         "organize", "organise")

RECURSIVE mapBritishSpelling(_, _)
mapBritishSpelling(lines, enabled) ==
  IF Len(lines) = 0 THEN <<>>
  ELSE <<britishSpelling(lines[1], enabled)>> \o mapBritishSpelling(Tail(lines), enabled)

\* Math.max(0, Math.min(100, Math.round(value))); the value is an integer
roundScore(value) == MaxOf(0, MinOf(100, value))

\* buildScore with the keyword bonus uncapped and weighted, and no clamp
buildScoreUnclamped(input, tags) ==
  55
  + MinOf(20, Len(tags))
  + 8 * Len(input.supportingKeywords)
  + (IF input.personalization THEN 7 ELSE 4)
  + (IF Len(input.materials) >= 3 THEN 6 ELSE 2)
  + (IF input.processingTimeDays <= 3 THEN 4 ELSE 1)

\* buildScore with the materials threshold off by one
buildScoreStrictMaterials(input, tags) ==
  roundScore(
    55
    + MinOf(20, Len(tags))
    + MinOf(8, Len(input.supportingKeywords))
    + (IF input.personalization THEN 7 ELSE 4)
    + (IF Len(input.materials) > 3 THEN 6 ELSE 2)
    + (IF input.processingTimeDays <= 3 THEN 4 ELSE 1))

\* buildScore with a bonus for the luxury tone
buildScoreToneBonus(input, tags) ==
  roundScore(
    55
    + MinOf(20, Len(tags))
    + MinOf(8, Len(input.supportingKeywords))
    + (IF input.personalization THEN 7 ELSE 4)
    + (IF Len(input.materials) >= 3 THEN 6 ELSE 2)
    + (IF input.processingTimeDays <= 3 THEN 4 ELSE 1)
    + (IF input.tone = "luxury" THEN 2 ELSE 0))

\* the accumulation of buildListingPack's score and its rounding
buildScore(input, tags) ==
  roundScore(
    55
    + MinOf(20, Len(tags))
    + MinOf(8, Len(input.supportingKeywords))
    + (IF input.personalization THEN 7 ELSE 4)
    + (IF Len(input.materials) >= 3 THEN 6 ELSE 2)
    + (IF input.processingTimeDays <= 3 THEN 4 ELSE 1))

\* ------------------------------------------------------------------------
\* buildListingPack
\* ------------------------------------------------------------------------
buildTitle(input) ==
  compactTitle(
    <<toTitleCase(input.primaryKeyword),
      toTitleCase(input.productType),
      IF input.personalization THEN "Personalized" ELSE "Ready to Ship",
      "Gift for " \o toTitleCase(input.targetAudience),
      toTitleCase(IF Len(input.supportingKeywords) > 0 /\ input.supportingKeywords[1] # ""
                    THEN input.supportingKeywords[1]
                    ELSE "Etsy Bestseller")>>)

materialsLine(input) ==
  IF Len(input.materials) > 0
    THEN "Materials include " \o join(take(input.materials, 5), ", ") \o "."
    ELSE "Materials are selected for durability and consistent finish."

baseDescription(input) ==
  join(
    <<toTitleCase(input.primaryKeyword) \o " from " \o input.shopName \o " is built for "
        \o input.targetAudience
        \o " buyers searching Etsy for a fast yes/no purchase decision.",
      "The copy is " \o toneLine(input.tone) \o ", with a " \o input.priceBand
        \o " price anchor and " \o numberToString(input.processingTimeDays)
        \o "-day processing promise.",
      materialsLine(input),
      IF input.personalization
        THEN "Personalization is highlighted in the first fold so buyers know exactly what can be customized before checkout."
        ELSE "The listing emphasizes ready-to-ship speed to reduce hesitation and increase conversion from search traffic.",
      "Use the photo order and FAQ below as-is to keep listing production under 15 minutes.">>,
    " ")

baseHighlights(input, tags) ==
  <<toTitleCase(input.primaryKeyword) \o " headline tuned for Etsy search intent",
    numberToString(Len(tags)) \o " tags included with <=20 character constraint respected",
    "Tone set to " \o input.tone \o " for consistent brand voice",
    numberToString(input.processingTimeDays) \o "-day processing expectation placed above the fold",
    IF input.personalization
      THEN "Personalization CTA included in title and FAQ"
      ELSE "Fast dispatch angle included in title and FAQ">>

buildFaq(input) ==
  <<[question |-> "How quickly can this order ship?",
     answer |-> britishSpelling(
       "Standard processing is " \o numberToString(input.processingTimeDays) \o " day"
         \o (IF input.processingTimeDays = 1 THEN "" ELSE "s")
         \o ". Rush requests can be discussed in messages before purchase.",
       input.includeUkSpelling)],
    [question |-> IF input.personalization
                    THEN "What personalization can I request?"
                    ELSE "Can I request a custom variation?",
     answer |-> britishSpelling(
       IF input.personalization
         THEN "Include names, dates, or short text in the personalization field. A preview can be requested before production."
         ELSE "Yes. Message the shop before checkout with size, color, or packaging requests and we will confirm availability.",
       input.includeUkSpelling)],
    [question |-> "What should I include in my first product photo?",
     answer |-> britishSpelling(
       "Lead with a clean hero shot of the " \o input.productType
         \o ", then show scale, materials, and one lifestyle image for "
         \o input.targetAudience \o ".",
       input.includeUkSpelling)]>>

basePhotoShotList(input) ==
  <<toTitleCase(input.productType) \o " on plain background (hero image)",
    "Close-up detail of texture and finish",
    IF input.personalization
      THEN "Personalized sample with realistic name/date"
      ELSE "Ready-to-ship packaging and dispatch view",
    "Scale reference in hand or beside common object",
    toTitleCase(input.targetAudience) \o " lifestyle context shot",
    IF Len(input.materials) > 0
      THEN "Materials flat lay: " \o join(take(input.materials, 4), ", ")
      ELSE "Materials and components flat lay",
    "Color or variation comparison grid",
    "Gift-ready final presentation">>

baseLaunchChecklist ==
  <<"Upload all 8 photos before publishing",
    "Keep first 40 title characters keyword-dense",
    "Place shipping timeline in description paragraph 1",
    "Pin one buyer FAQ in shop announcement",
    "Track clicks and favorites after 24 hours">>

\* buildListingPack with the generation time written into the description
buildListingPackStamped(input, now) ==
  LET tags == buildTags(input)
  IN [generatedAt |-> now,
      score |-> buildScore(input, tags),
      title |-> britishSpelling(buildTitle(input), input.includeUkSpelling),
      tags |-> tags,
      highlights |-> mapBritishSpelling(baseHighlights(input, tags), input.includeUkSpelling),
      description |-> britishSpelling(baseDescription(input) \o " Generated at "
                        \o numberToString(now) \o ".", input.includeUkSpelling),
      faq |-> buildFaq(input),
      photoShotList |-> mapBritishSpelling(basePhotoShotList(input), input.includeUkSpelling),
      launchChecklist |-> mapBritishSpelling(baseLaunchChecklist, input.includeUkSpelling)]

\* now stands for new Date().toISOString()
buildListingPack(input, now) ==
  LET tags == buildTags(input)
  IN [generatedAt |-> now,
      score |-> buildScore(input, tags),
      title |-> britishSpelling(buildTitle(input), input.includeUkSpelling),
      tags |-> tags,
      highlights |-> mapBritishSpelling(baseHighlights(input, tags), input.includeUkSpelling),
      description |-> britishSpelling(baseDescription(input), input.includeUkSpelling),
      faq |-> buildFaq(input),
      photoShotList |-> mapBritishSpelling(basePhotoShotList(input), input.includeUkSpelling),
      launchChecklist |-> mapBritishSpelling(baseLaunchChecklist, input.includeUkSpelling)]

\* placeholder for "no pack built"
NoPack ==
  [generatedAt |-> 0, score |-> 0, title |-> "", tags |-> <<>>, highlights |-> <<>>,
   description |-> "", faq |-> <<>>, photoShotList |-> <<>>, launchChecklist |-> <<>>]

\* ------------------------------------------------------------------------
\* Request payloads (server.ts)
\* ------------------------------------------------------------------------
JsNull == [t |-> "null", s |-> "", n |-> 0, f |-> 0, b |-> FALSE, a |-> <<>>]

\* the value of a key the payload does not have
JsAbsent == [t |-> "absent", s |-> "", n |-> 0, f |-> 0, b |-> FALSE, a |-> <<>>]

\* the keys the handlers read from a payload
PayloadKeys ==
  {"shopName", "productType", "targetAudience", "primaryKeyword", "supportingKeywordsCsv",
   "supportingKeywords", "materialsCsv", "materials", "tone", "priceBand",
   "processingTimeDays", "personalization", "includeUkSpelling", "source", "selfTest",
   "briefIntent", "sessionId", "payerEmail", "transactionId", "evidenceUrl", "note", "format"}

\* a JsonObject with the given fields
JsonObject(fields) ==
  [k \in PayloadKeys |-> IF k \in DOMAIN fields THEN fields[k] ELSE JsAbsent]

\* raw == null
IsNullish(v) == v.t \in {"absent", "null", "undefined"}

\* value || fallback for a string value; "" stands for undefined as well
OrDefault(value, fallback) == IF value = "" THEN fallback ELSE value

parseBoolean(value) ==
  IF value.t = "boolean" THEN value.b
  ELSE IF value.t = "number" THEN value.n = 1 /\ value.f = 0
  ELSE IF value.t = "string"
    THEN toLowerCase(trim(value.s)) \in {"true", "1", "yes", "on"}
  ELSE FALSE

SourceFirstChars == LowerSet \cup DigitSet

SourceChars == LowerSet \cup DigitSet \cup {"_", "-"}

\* /^[a-z0-9][a-z0-9_-]{0,39}$/
SourcePattern(s) ==
  /\ Len(s) >= 1 /\ Len(s) <= 40
  /\ CharAt(s, 1) \in SourceFirstChars
  /\ \A i \in 2..Len(s) : CharAt(s, i) \in SourceChars

normalizeSource(value, fallback) ==
  IF value.t # "string" THEN fallback
  ELSE LET normalized == toLowerCase(trim(value.s))
       IN IF SourcePattern(normalized) THEN normalized ELSE fallback

normalizeBriefIntent(value) ==
  IF value.t # "string" THEN "unknown"
  ELSE LET normalized == toLowerCase(trim(value.s))
       IN IF normalized \in {"manual_submit", "auto_preview", "sample_cta", "quick_start",
                             "no_js_quick_start"}
            THEN normalized
            ELSE "unknown"

\* returns "" for undefined: a returned string is never empty
asOptionalString(payload, key, maxLength) ==
  LET raw == payload[key]
  IN IF IsNullish(raw) THEN Returned("")
     ELSE IF raw.t # "string" THEN Thrown("invalid_" \o key, "")
     ELSE LET trimmed == trim(raw.s)
          IN IF trimmed = "" THEN Returned("")
             ELSE IF Len(trimmed) > maxLength THEN Thrown("invalid_" \o key, "")
             ELSE Returned(trimmed)

asRequiredString(payload, key, maxLength) ==
  LET value == asOptionalString(payload, key, maxLength)
  IN IF ~value.ok THEN value
     ELSE IF value.val = "" THEN Thrown("invalid_" \o key, "")
     ELSE value

DigitValue(c) == (CHOOSE i \in 1..10 : CharAt(Digits, i) = c) - 1

RECURSIVE digitsValue(_)
digitsValue(s) ==
  IF Len(s) = 0 THEN 0
  ELSE 10 * digitsValue(SubSeq(s, 1, Len(s) - 1)) + DigitValue(CharAt(s, Len(s)))

\* Number.parseInt(s, 10): leading whitespace, an optional sign, then the
\* longest run of digits; NaN when there is no digit
parseInt(s) ==
  LET body == {i \in 1..Len(s) : CharAt(s, i) \notin Whitespace}
      start == IF body = {} THEN Len(s) + 1 ELSE SetMin(body)
      signed == start <= Len(s) /\ CharAt(s, start) \in {"+", "-"}
      first == IF signed THEN start + 1 ELSE start
      stops == {i \in first..Len(s) : CharAt(s, i) \notin DigitSet}
      last == IF stops = {} THEN Len(s) ELSE SetMin(stops) - 1
      magnitude == digitsValue(SubSeq(s, first, last))
  IN IF last < first THEN [nan |-> TRUE, n |-> 0]
     ELSE [nan |-> FALSE,
           n |-> IF signed /\ CharAt(s, start) = "-" THEN 0 - magnitude ELSE magnitude]

\* an optional number: undefined, or defined with value n
NoNumber == [defined |-> FALSE, n |-> 0]

SomeNumber(n) == [defined |-> TRUE, n |-> n]

asOptionalInteger(payload, key) ==
  LET raw == payload[key]
  IN IF IsNullish(raw) \/ (raw.t = "string" /\ raw.s = "") THEN Returned(NoNumber)
     ELSE IF raw.t = "number"
       THEN IF raw.f = 0 THEN Returned(SomeNumber(raw.n))
            ELSE Thrown("invalid_" \o key, NoNumber)
     ELSE IF raw.t = "string"
       THEN LET parsed == parseInt(raw.s)
            IN IF parsed.nan THEN Thrown("invalid_" \o key, NoNumber)
               ELSE Returned(SomeNumber(parsed.n))
     ELSE Thrown("invalid_" \o key, NoNumber)

\* an optional boolean: undefined, or defined with value b
NoBoolean == [defined |-> FALSE, b |-> FALSE]

asOptionalBoolean(payload, key) ==
  IF payload[key].t = "absent" THEN NoBoolean
  ELSE [defined |-> TRUE, b |-> parseBoolean(payload[key])]

SessionIdChars == LowerSet \cup UpperSet \cup DigitSet \cup {"-"}

\* /^[a-zA-Z0-9-]{8,120}$/
SessionIdPattern(s) ==
  /\ Len(s) >= 8 /\ Len(s) <= 120
  /\ \A i \in 1..Len(s) : CharAt(s, i) \in SessionIdChars

parseSessionId(payload) ==
  LET sessionId == asRequiredString(payload, "sessionId", 120)
  IN IF ~sessionId.ok THEN sessionId
     ELSE IF ~SessionIdPattern(sessionId.val) THEN Thrown("invalid_sessionId", "")
     ELSE sessionId

\* the for-of loop of parseStringArray from item i on
RECURSIVE stringArrayLoop(_, _, _, _, _, _)
stringArrayLoop(items, i, result, key, maxItems, maxLength) ==
  IF i > Len(items) THEN Returned(result)
  ELSE IF items[i].t # "string" THEN Thrown("invalid_" \o key, <<>>)
  ELSE LET trimmed == trim(items[i].s)
       IN IF trimmed = "" \/ Len(trimmed) > maxLength THEN Thrown("invalid_" \o key, <<>>)
          ELSE LET pushed == Append(result, trimmed)
               IN IF Len(pushed) >= maxItems THEN Returned(pushed)
                  ELSE stringArrayLoop(items, i + 1, pushed, key, maxItems, maxLength)

parseStringArray(payload, key, maxItems, maxLength) ==
  IF payload[key].t # "array" THEN Thrown("invalid_" \o key, <<>>)
  ELSE stringArrayLoop(payload[key].a, 1, <<>>, key, maxItems, maxLength)

parseKeywords(payload) ==
  LET keywordsCsv == asOptionalString(payload, "supportingKeywordsCsv", 5000)
  IN IF ~keywordsCsv.ok THEN Thrown(keywordsCsv.err, <<>>)
     ELSE IF keywordsCsv.val # "" THEN parseKeywordCsv(JsString(keywordsCsv.val))
     ELSE IF payload["supportingKeywords"].t # "absent"
       THEN parseStringArray(payload, "supportingKeywords", 16, 80)
     ELSE Returned(<<>>)

parseMaterials(payload) ==
  LET materialsCsv == asOptionalString(payload, "materialsCsv", 3000)
  IN IF ~materialsCsv.ok THEN Thrown(materialsCsv.err, <<>>)
     ELSE IF materialsCsv.val # "" THEN parseMaterialsCsv(JsString(materialsCsv.val))
     ELSE IF payload["materials"].t = "absent" THEN Returned(<<>>)
     ELSE parseStringArray(payload, "materials", 12, 80)

\* the characters /[^a-z0-9&\-\s]/g leaves in place
SeedChars == LowerSet \cup DigitSet \cup {"&", "-"} \cup Whitespace

RECURSIVE blankRange(_, _, _)
blankRange(s, lo, hi) ==
  IF lo > hi THEN ""
  ELSE IF lo = hi THEN IF CharAt(s, lo) \in SeedChars THEN CharAt(s, lo) ELSE " "
  ELSE LET mid == (lo + hi) \div 2
       IN blankRange(s, lo, mid) \o blankRange(s, mid + 1, hi)

normalizeKeywordSeed(value) ==
  LET lowered == toLowerCase(trim(value))
  IN trim(collapseWhitespace(blankRange(lowered, 1, Len(lowered))))

\* the loop without its seen-set test
RECURSIVE fallbackLoopRepeating(_, _, _)
fallbackLoopRepeating(candidates, i, result) ==
  IF i > Len(candidates) THEN result
  ELSE LET normalized == normalizeKeywordSeed(candidates[i])
       IN IF normalized = "" \/ Len(normalized) > 80
            THEN fallbackLoopRepeating(candidates, i + 1, result)
            ELSE fallbackLoopRepeating(candidates, i + 1, Append(result, normalized))

\* the for-of loop of buildFallbackKeywords from candidate i on
RECURSIVE fallbackLoop(_, _, _)
fallbackLoop(candidates, i, result) ==
  IF i > Len(candidates) THEN result
  ELSE LET normalized == normalizeKeywordSeed(candidates[i])
       IN IF normalized = "" \/ Len(normalized) > 80 \/ includes(result, normalized)
            THEN fallbackLoop(candidates, i + 1, result)
            ELSE fallbackLoop(candidates, i + 1, Append(result, normalized))

buildFallbackKeywords(primaryKeyword, productType, targetAudience) ==
  LET candidates == <<primaryKeyword,
                      primaryKeyword \o " gift",
                      productType \o " gift",
                      targetAudience \o " gift",
                      productType \o " etsy",
                      "handmade gift">>
      result == fallbackLoop(candidates, 1, <<>>)
  IN IF Len(result) = 0 THEN <<"etsy gift">> ELSE take(result, 8)

\* parsedSupportingKeywords.length > 0 ? parsedSupportingKeywords
\*   : buildFallbackKeywords(primaryKeyword, productType, targetAudience)
supportingKeywordsOf(payload, primaryKeyword, productType, targetAudience) ==
  LET parsedSupportingKeywords == parseKeywords(payload)
  IN IF ~parsedSupportingKeywords.ok THEN parsedSupportingKeywords
     ELSE IF Len(parsedSupportingKeywords.val) > 0 THEN parsedSupportingKeywords
     ELSE Returned(buildFallbackKeywords(primaryKeyword, productType, targetAudience))

\* placeholder carried by a failed parseGenerateInput
NoGenerateInput ==
  [input |-> NoInput, source |-> "", selfTest |-> FALSE, briefIntent |-> ""]

parseGenerateInput(payload) ==
  LET shopName == asOptionalString(payload, "shopName", 80)
      productType == asRequiredString(payload, "productType", 80)
      targetAudience == asOptionalString(payload, "targetAudience", 80)
      primaryKeyword == asOptionalString(payload, "primaryKeyword", 80)
      primary == OrDefault(primaryKeyword.val, productType.val)
      audience == OrDefault(targetAudience.val, "etsy shoppers")
      parsedSupportingKeywords == supportingKeywordsOf(payload, primary, productType.val, audience)
      supportingKeywords == parsedSupportingKeywords.val
      materials == parseMaterials(payload)
      tone == asOptionalString(payload, "tone", 20)
      priceBand == asOptionalString(payload, "priceBand", 80)
      processingTimeDays == asOptionalInteger(payload, "processingTimeDays")
      personalization == asOptionalBoolean(payload, "personalization")
      includeUkSpelling == asOptionalBoolean(payload, "includeUkSpelling")
      sanitized ==
        sanitizeListingInput(
          [shopName |-> JsString(OrDefault(shopName.val, "Your Etsy Shop")),
           productType |-> JsString(productType.val),
           targetAudience |-> JsString(audience),
           primaryKeyword |-> JsString(primary),
           supportingKeywords |-> JsStringArray(supportingKeywords),
           materials |-> JsStringArray(materials.val),
           tone |-> JsString(toLowerCase(OrDefault(tone.val, "warm"))),
           priceBand |-> JsString(OrDefault(priceBand.val, "$20-$45")),
           processingTimeDays |->
             JsNumber(IF processingTimeDays.val.defined THEN processingTimeDays.val.n ELSE 3, 0),
           personalization |->
             JsBoolean(IF personalization.defined THEN personalization.b ELSE TRUE),
           includeUkSpelling |->
             JsBoolean(IF includeUkSpelling.defined THEN includeUkSpelling.b ELSE FALSE)])
  IN IF ~shopName.ok THEN Thrown(shopName.err, NoGenerateInput)
     ELSE IF ~productType.ok THEN Thrown(productType.err, NoGenerateInput)
     ELSE IF ~targetAudience.ok THEN Thrown(targetAudience.err, NoGenerateInput)
     ELSE IF ~primaryKeyword.ok THEN Thrown(primaryKeyword.err, NoGenerateInput)
     ELSE IF ~parsedSupportingKeywords.ok THEN Thrown(parsedSupportingKeywords.err, NoGenerateInput)
     ELSE IF ~materials.ok THEN Thrown(materials.err, NoGenerateInput)
     ELSE IF ~tone.ok THEN Thrown(tone.err, NoGenerateInput)
     ELSE IF ~priceBand.ok THEN Thrown(priceBand.err, NoGenerateInput)
     ELSE IF ~processingTimeDays.ok THEN Thrown(processingTimeDays.err, NoGenerateInput)
     ELSE IF ~sanitized.ok THEN Thrown(sanitized.err, NoGenerateInput)
     ELSE Returned(
       [input |-> sanitized.val,
        source |-> normalizeSource(payload["source"], "web"),
        selfTest |-> parseBoolean(payload["selfTest"]),
        briefIntent |-> normalizeBriefIntent(payload["briefIntent"])])

\* ------------------------------------------------------------------------
\* Preview, export text, sessions (server.ts)
\* ------------------------------------------------------------------------
PRICE_USD == 19

\* description.search(/[.!?](\s|$)/), counted from 1; 0 when there is no match
sentenceBoundary(description) ==
  LET ends == {i \in 1..Len(description) :
                 /\ CharAt(description, i) \in {".", "!", "?"}
                 /\ (i = Len(description) \/ CharAt(description, i + 1) \in Whitespace)}
  IN IF ends = {} THEN 0 ELSE SetMin(ends)

previewDescription(description) ==
  LET boundary == sentenceBoundary(description)
      sentence == IF boundary > 0 THEN trim(SubSeq(description, 1, boundary))
                  ELSE trim(description)
      compact == IF Len(sentence) > 220 THEN SubSeq(sentence, 1, 217) \o "..." ELSE sentence
  IN compact \o " Unlock full description, FAQ, photo plan, and checklist after checkout."

\* slice(0, count) followed by the push of the lock marker
\* a preview that shows one entry more than count
previewListLonger(list, count, marker) ==
  IF Len(list) > count THEN Append(take(list, count + 1), marker) ELSE take(list, count)

previewList(list, count, marker) ==
  IF Len(list) > count THEN Append(take(list, count), marker) ELSE take(list, count)

\* buildPreviewPack without the slice of the tags: the lock marker is pushed
\* to the list of the pack itself
buildPreviewPackInPlace(pack) ==
  [previewPack |->
     [pack EXCEPT
        !.tags = IF Len(pack.tags) > 5 THEN Append(pack.tags, "unlock full pack") ELSE pack.tags,
        !.highlights =
          previewList(pack.highlights, 2, "Unlock the remaining quality notes after checkout."),
        !.description = previewDescription(pack.description),
        !.faq = take(pack.faq, 1),
        !.photoShotList =
          previewList(pack.photoShotList, 3, "Unlock the full 8-shot plan after checkout."),
        !.launchChecklist =
          previewList(pack.launchChecklist, 2,
                      "Unlock the remaining launch checklist after checkout.")],
   preview |->
     [limited |-> TRUE,
      hiddenCounts |->
        [tags |-> MaxOf(0, Len(pack.tags) - MinOf(Len(pack.tags), 5)),
         highlights |-> MaxOf(0, Len(pack.highlights) - MinOf(Len(pack.highlights), 2)),
         faq |-> MaxOf(0, Len(pack.faq) - MinOf(Len(pack.faq), 1)),
         photoShotList |-> MaxOf(0, Len(pack.photoShotList) - MinOf(Len(pack.photoShotList), 3)),
         launchChecklist |->
           MaxOf(0, Len(pack.launchChecklist) - MinOf(Len(pack.launchChecklist), 2))],
      lockMessage |-> "Checkout unlocks the full listing pack plus TXT/JSON export."],
   pack |->
     [pack EXCEPT
        !.tags = IF Len(pack.tags) > 5 THEN Append(pack.tags, "unlock full pack") ELSE pack.tags]]

\* the field pack is the argument as the call leaves it: every list the
\* function pushes to is a slice, a copy
buildPreviewPack(pack) ==
  [previewPack |->
     [pack EXCEPT
        !.tags = previewList(pack.tags, 5, "unlock full pack"),
        !.highlights =
          previewList(pack.highlights, 2, "Unlock the remaining quality notes after checkout."),
        !.description = previewDescription(pack.description),
        !.faq = take(pack.faq, 1),
        !.photoShotList =
          previewList(pack.photoShotList, 3, "Unlock the full 8-shot plan after checkout."),
        !.launchChecklist =
          previewList(pack.launchChecklist, 2,
                      "Unlock the remaining launch checklist after checkout.")],
   preview |->
     [limited |-> TRUE,
      hiddenCounts |->
        [tags |-> MaxOf(0, Len(pack.tags) - MinOf(Len(pack.tags), 5)),
         highlights |-> MaxOf(0, Len(pack.highlights) - MinOf(Len(pack.highlights), 2)),
         faq |-> MaxOf(0, Len(pack.faq) - MinOf(Len(pack.faq), 1)),
         photoShotList |-> MaxOf(0, Len(pack.photoShotList) - MinOf(Len(pack.photoShotList), 3)),
         launchChecklist |->
           MaxOf(0, Len(pack.launchChecklist) - MinOf(Len(pack.launchChecklist), 2))],
      lockMessage |-> "Checkout unlocks the full listing pack plus TXT/JSON export."],
   pack |-> pack]

RECURSIVE mapPrefix(_, _)
mapPrefix(prefix, lines) ==
  IF Len(lines) = 0 THEN <<>> ELSE <<prefix \o lines[1]>> \o mapPrefix(prefix, Tail(lines))

RECURSIVE faqLines(_)
faqLines(faq) ==
  IF Len(faq) = 0 THEN <<>>
  ELSE <<"Q: " \o faq[1].question, "A: " \o faq[1].answer>> \o faqLines(Tail(faq))

\* now stands for new Date().toISOString()
buildExportText(session, now) ==
  join(
    <<"Etsy Listing Sprint Assistant Export",
      "Session: " \o session.sessionId,
      "Generated: " \o numberToString(now),
      "Shop: " \o session.input.shopName,
      "Product: " \o session.input.productType,
      "Score: " \o numberToString(session.pack.score),
      "",
      "TITLE",
      session.pack.title,
      "",
      "TAGS">>
    \o mapPrefix("- ", session.pack.tags)
    \o <<"", "HIGHLIGHTS">>
    \o mapPrefix("- ", session.pack.highlights)
    \o <<"", "DESCRIPTION", session.pack.description, "", "FAQ">>
    \o faqLines(session.pack.faq)
    \o <<"", "PHOTO SHOT LIST">>
    \o mapPrefix("- ", session.pack.photoShotList)
    \o <<"", "LAUNCH CHECKLIST">>
    \o mapPrefix("- ", session.pack.launchChecklist),
    "\n")

\* the paymentProof of a session that has none
NoProof ==
  [submittedAt |-> 0, payerEmail |-> "", transactionId |-> "", evidenceUrl |-> "", note |-> ""]

\* sessionId stands for randomUUID(), timestamp for new Date().toISOString()
createListingSession(input, source, selfTest, sessionId, timestamp) ==
  LET shown == buildPreviewPack(buildListingPack(input, timestamp))
  IN [session |->
        [sessionId |-> sessionId,
         createdAt |-> timestamp,
         updatedAt |-> timestamp,
         source |-> source,
         selfTest |-> selfTest,
         input |-> input,
         pack |-> shown.pack,
         paid |-> FALSE,
         paymentProof |-> NoProof],
      previewPack |-> shown.previewPack,
      preview |-> shown.preview]

\* ------------------------------------------------------------------------
\* Bounds of the exploration
\* ------------------------------------------------------------------------
\* buildListingPack calls made on one sanitized input
MaxBuilds == 2

\* fragments concatenated into a text handed to britishSpelling
MaxFragments == 3

\* britishSpelling passes over one text
MaxPasses == 2

\* segments handed to compactTitle
MaxParts == 3

\* sessions the server creates
MaxSessions == 1

\* events the server records
MaxEvents == 3

\* requests in a row that the server answers without recording an event
MaxUnrecorded == 1

\* writes of state.json and events.jsonl that fail
MaxFailures == 1

\* writes still queued when a request that records no event arrives
MaxBusy == 0

\* sessions the page generates in the exploration of the client
MaxClientSessions == 3

\* ------------------------------------------------------------------------
\* Inputs
\* ------------------------------------------------------------------------
RECURSIVE Rep(_, _)
Rep(s, n) ==
  IF n = 0 THEN ""
  ELSE IF n = 1 THEN s
  ELSE Rep(s, n \div 2) \o Rep(s, n - (n \div 2))

\* exactly 80 characters, 13 times "color"
Phrase80 == Rep("color ", 13) \o "ab"

Phrase81 == Phrase80 \o "c"

\* 57 characters: with an 80-character first segment the joined title has 140
Product57 == Rep("color ", 9) \o "box"

\* 120 characters that collapse to 79
Spaced120 == Rep("a  ", 40)

\* n distinct keywords "gift a", "gift b", ...
KeywordList(n) == [i \in 1..n |-> "gift " \o CharAt(Lowers, i)]

\* more entries than MAX_KEYWORDS, with duplicates, noise and empty entries
NoisyKeywords ==
  <<"Gift A", " gift  a ", "!!!", "">> \o KeywordList(MAX_KEYWORDS + 1)

\* the input of the test "buildListingPack creates Etsy-safe title and 13 tags max"
BaseInput ==
  [shopName |-> JsString("Copper Pine Studio"),
   productType |-> JsString("ring dish"),
   targetAudience |-> JsString("bridal party"),
   primaryKeyword |-> JsString("personalized ring dish"),
   supportingKeywords |-> JsStringArray(<<"engagement gift", "bridal shower gift", "ceramic tray">>),
   materials |-> JsStringArray(<<"ceramic", "glaze", "gold paint">>),
   tone |-> JsString("warm"),
   priceBand |-> JsString("$20-$35"),
   processingTimeDays |-> JsNumber(3, 0),
   personalization |-> JsBoolean(TRUE),
   includeUkSpelling |-> JsBoolean(FALSE)]

PhraseFields == {"shopName", "productType", "targetAudience", "primaryKeyword", "priceBand"}

PhraseVariants ==
  {JsString(""), JsString(" \t\n "), JsString("!!!"), JsString(Phrase80), JsString(Phrase81),
   JsString("  " \o Phrase80 \o " \n"), JsString(Spaced120), JsString(Spaced120 \o "bc"),
   JsString("  Copper \t Pine\n\nStudio "), JsString(Rep(DOTTED_CAPITAL_I, MAX_PHRASE_LENGTH)),
   JsUndefined, JsNumber(5, 0)}

DaysVariants ==
  {JsNumber(n, 0) : n \in {0 - 1, 0, 1, 2, 44, 45, 46, 100}}
    \cup {JsNumber(0, 5), JsNumber(2, 5), JsNumber(45, 5), JsString("3"), JsUndefined, JsBoolean(TRUE)}

ToneVariants ==
  {JsString(s) : s \in {"playful", "minimal", "luxury", "warm", " Luxury ", "WARM", "bold", "", "warm tone"}}
    \cup {JsUndefined}

ListVariants ==
  {JsStringArray(xs) : xs \in {<<>>, <<"!!!">>, <<"", "  ", "?!">>, <<"Oak Wood", "oak  wood", "brass">>,
                               NoisyKeywords, KeywordList(MAX_MATERIALS), KeywordList(MAX_KEYWORDS)}}
    \cup {JsArray(<<StringItem("oak"), NumberItem>>), JsArray(<<NumberItem>>),
          JsString("oak,brass"), JsUndefined}

BooleanVariants ==
  {JsBoolean(TRUE), JsBoolean(FALSE), JsString("true"), JsNumber(1, 0), JsUndefined}

VariantsOf(field) ==
  IF field \in PhraseFields THEN PhraseVariants
  ELSE IF field = "processingTimeDays" THEN DaysVariants
  ELSE IF field = "tone" THEN ToneVariants
  ELSE IF field \in {"supportingKeywords", "materials"} THEN ListVariants
  ELSE BooleanVariants

\* the base input with one field replaced
OneFieldInputs ==
  {[BaseInput EXCEPT ![field] = v] : <<field, v>> \in
     UNION {{<<f, w>> : w \in VariantsOf(f)} : f \in DOMAIN BaseInput}}

\* every combination of valid and invalid values of the fields that can fail
MixedValidityInputs ==
  {[BaseInput EXCEPT
      !.shopName = a, !.productType = b, !.targetAudience = c, !.primaryKeyword = d,
      !.supportingKeywords = e, !.materials = f, !.tone = g, !.priceBand = h,
      !.processingTimeDays = i] :
    a \in {BaseInput.shopName, JsString("   ")},
    b \in {BaseInput.productType, JsString(Phrase81)},
    c \in {BaseInput.targetAudience, JsString("")},
    d \in {BaseInput.primaryKeyword, JsString("?!")},
    e \in {BaseInput.supportingKeywords, JsStringArray(<<"!!!", " ">>)},
    f \in {BaseInput.materials, JsString("ceramic")},
    g \in {BaseInput.tone, JsString("bold")},
    h \in {BaseInput.priceBand, JsString(Phrase81)},
    i \in {BaseInput.processingTimeDays, JsNumber(0, 0)}}

\* the fields the title and the tags are composed from
CopyInputs ==
  {[BaseInput EXCEPT
      !.primaryKeyword = JsString(p), !.productType = JsString(q),
      !.targetAudience = JsString(a), !.supportingKeywords = JsStringArray(k),
      !.personalization = JsBoolean(b), !.includeUkSpelling = JsBoolean(u)] :
    p \in {"personalized ring dish", "  Book   Lover's MUG! ", Phrase80, "ab"},
    q \in {"ring dish", "Favorite Color organizer box", Product57},
    a \in {"bridal party", "Personalization fans who organize by color"},
    k \in {<<"engagement gift", "bridal shower gift", "ceramic tray">>, <<"Color Palette">>,
           NoisyKeywords},
    b \in BOOLEAN, u \in BOOLEAN}

\* the fields the score is computed from
ScoreInputs ==
  {[BaseInput EXCEPT
      !.primaryKeyword = JsString(p), !.supportingKeywords = JsStringArray(k),
      !.materials = JsStringArray(m), !.processingTimeDays = JsNumber(d, 0),
      !.personalization = JsBoolean(b)] :
    p \in {"personalized ring dish", "ab"},
    k \in {KeywordList(1), KeywordList(7), KeywordList(8), KeywordList(9)},
    m \in {<<>>, <<"oak", "brass">>, <<"oak", "brass", "wax">>, KeywordList(MAX_MATERIALS + 1)},
    d \in {1, 3, 4, 45},
    b \in BOOLEAN}

\* inputs whose own phrases give no tag: every phrase is longer than 20
\* characters and the words of primaryKeyword are shorter than 3
SparseInputs ==
  {[BaseInput EXCEPT
      !.productType = JsString("ab ab ab ab ab ab ab cd"),
      !.targetAudience = JsString("ab ab ab ab ab ab ab ef"),
      !.primaryKeyword = JsString("ab ab ab ab ab ab ab gh"),
      !.supportingKeywords = JsStringArray(<<"ab ab ab ab ab ab ab ij">>),
      !.materials = JsStringArray(m),
      !.processingTimeDays = JsNumber(d, 0),
      !.personalization = JsBoolean(FALSE)] :
    m \in {<<>>, <<"oak", "brass", "wax">>}, d \in {3, 4}}

RawInputs ==
  OneFieldInputs \cup MixedValidityInputs \cup CopyInputs \cup ScoreInputs \cup SparseInputs

CsvTexts ==
  {JsString(s) : s \in
     {"wedding gift, bridesmaid gift\nhandmade box", "", " , \n ,!!", "oak, Oak ,OAK!,brass",
      "a,b,c,d,e,f,g,h,i,j,k,l,m,n,o,p,q,r", "one\ntwo,,three\n", "solo"}}
    \cup {JsUndefined, JsNumber(7, 0), JsStringArray(<<"oak">>)}

Fragments ==
  {"color", "COL", "or", "favorite", "organi", "Ze", "customization", "personalization", "s", " ",
   "organ" \o DOTTED_CAPITAL_I}

RECURSIVE TextsOf(_)
TextsOf(n) ==
  IF n = 0 THEN {""}
  ELSE LET shorter == TextsOf(n - 1)
       IN shorter \cup {s \o f : s \in shorter, f \in Fragments}

SpellingTexts == TextsOf(MaxFragments)

\* the segments handed to compactTitle: blank ones, short ones, two that fill
\* the 140 characters together, one longer than the limit
TitleSegments ==
  {"", "  ", "Ring Dish", " Gift for Her ", Rep("a", 80), Rep("b", 57), Rep("c", 141)}

RECURSIVE ListsOf(_, _)
ListsOf(S, n) ==
  IF n = 0 THEN {<<>>}
  ELSE LET shorter == ListsOf(S, n - 1)
       IN shorter \cup {Append(l, s) : l \in shorter, s \in S}

TitlePartLists == ListsOf(TitleSegments, MaxParts)

\* the supportingKeywordsCsv values of the payloads: missing, null, blank,
\* without a usable keyword, usable
KeywordCsvValues ==
  {JsAbsent, JsNull, JsString(""), JsString("  "), JsString("!!!, ??"), JsString(" ,\n, "),
   JsString("Gift, ring dish,gift")}

\* the supportingKeywords values: missing, null, empty, usable, blank entry
KeywordArrayValues ==
  {JsAbsent, JsNull, JsStringArray(<<>>), JsStringArray(<<"engagement gift", "ceramic tray">>),
   JsStringArray(<<" ">>)}

\* productType, primaryKeyword and targetAudience of the payloads: distinct,
\* missing, equal to one another, too long once ' gift' is appended, made of
\* characters the seed normalization blanks
KeywordSeeds ==
  {[productType |-> JsString("Ring Dish"), primaryKeyword |-> JsString("Personalized Ring Dish"),
    targetAudience |-> JsString("bridal party")],
   [productType |-> JsString("Ring Dish"), primaryKeyword |-> JsAbsent,
    targetAudience |-> JsAbsent],
   [productType |-> JsString("Handmade"), primaryKeyword |-> JsString("handmade"),
    targetAudience |-> JsString("HANDMADE")],
   [productType |-> JsString(Rep("mug ", 19) \o "mugs"), primaryKeyword |-> JsString("Mug"),
    targetAudience |-> JsString("tea_lovers (UK)")],
   [productType |-> JsString("Ring Dish"), primaryKeyword |-> JsString("a+b"),
    targetAudience |-> JsString("mom & dad")]}

KeywordPayloads ==
  {JsonObject(seed @@ [supportingKeywordsCsv |-> csv, supportingKeywords |-> list]) :
     seed \in KeywordSeeds, csv \in KeywordCsvValues, list \in KeywordArrayValues}

\* ------------------------------------------------------------------------
\* State
\* ------------------------------------------------------------------------
VARIABLES
  op,           \* the operation the caller invokes: "listing", "csv", "spelling", "title", "parse",
                \* "server" or "client"
  raw,          \* the value handed to sanitizeListingInput
  pc,           \* "start", "sanitized", "rejected" or "built"
  input,        \* the ListingInput sanitizeListingInput returned
  error,        \* the message of the Error it threw, "" if none
  pack,         \* the pack of the latest buildListingPack call
  prevPack,     \* the pack of the call before it
  builds,       \* number of buildListingPack calls so far
  now,          \* the clock read by new Date()
  csvText,      \* the value handed to parseKeywordCsv and parseMaterialsCsv
  keywordsOut,  \* outcome of parseKeywordCsv
  materialsOut, \* outcome of parseMaterialsCsv
  text,         \* the text handed to britishSpelling
  passes,       \* number of britishSpelling passes over text
  parts,        \* the segments handed to compactTitle
  title,        \* the title compactTitle returned, "" before the call
  parsePayload, \* the payload handed to parseGenerateInput
  parseResult,  \* outcome of parseGenerateInput, with the supporting keywords it chose
  client,       \* the page of app.js: currentSessionId, unlocked, the disabled buttons
  requests,     \* the page's fetch calls in flight: one per button at most
  sessions,         \* state.sessions: session id -> ListingSession
  events,           \* state.events
  stateWriteQueue,  \* the writes of state.json chained on stateWriteQueue, oldest first
  eventWriteQueue,  \* the appends to events.jsonl chained on eventWriteQueue, oldest first
  stateFile,        \* the content of state.json
  eventsFile,       \* the lines of events.jsonl
  awaiting,         \* the handlers suspended in recordEvent: event id -> continuation
  response,         \* the response the last step sent, NoResponse when it sent none
  acceptedProofs,   \* the sessions a payment-proof request was answered as accepted for
  uuids,            \* number of randomUUID() calls so far
  unrecorded,       \* number of requests answered since the last event was recorded
  failures,         \* number of failed writes
  writing,          \* the writeFile and appendFile calls made and not yet settled
  inherited         \* what the handlers assigned to the members of Object.prototype
                    \* that state.sessions[id] returns for an id no session has

serverVars ==
  <<sessions, events, stateWriteQueue, eventWriteQueue, stateFile, eventsFile, awaiting,
    response, acceptedProofs, uuids, unrecorded, failures, writing, inherited>>

vars ==
  <<op, raw, pc, input, error, pack, prevPack, builds, now, csvText, keywordsOut,
    materialsOut, text, passes, parts, title, parsePayload, parseResult, client, requests,
    serverVars>>

listingVars == <<raw, pc, input, error, pack, prevPack, builds, now>>

csvVars == <<csvText, keywordsOut, materialsOut>>

spellingVars == <<text, passes>>

titleVars == <<parts, title>>

parseVars == <<parsePayload, parseResult>>

clientVars == <<client, requests>>

NotCalled == [ok |-> FALSE, err |-> "not_called", val |-> <<>>]

\* the State the process starts with, and what loadState leaves in state.json
EmptyState == [sessions |-> <<>>, events |-> <<>>]

NoPreview ==
  [limited |-> FALSE,
   hiddenCounts |-> [tags |-> 0, highlights |-> 0, faq |-> 0, photoShotList |-> 0,
                     launchChecklist |-> 0],
   lockMessage |-> ""]

\* a response: its status, the error code or the redirect location, and
\* the parts of its body
Response(route, status, fields) ==
  LET base == [route |-> route, status |-> status, error |-> "", location |-> "",
               sessionId |-> "", pack |-> NoPack, preview |-> NoPreview, input |-> NoInput,
               format |-> "", content |-> "", paid |-> FALSE]
  IN [k \in DOMAIN base |-> IF k \in DOMAIN fields THEN fields[k] ELSE base[k]]

NoResponse == Response("", 0, [error |-> ""])

\* the server after main() has loaded an empty data directory
\* the names of Object.prototype that the session id pattern admits:
\* state.sessions is a plain object, and state.sessions[id] returns the
\* inherited function for them
INHERITED_IDS ==
  {"constructor", "hasOwnProperty", "isPrototypeOf", "propertyIsEnumerable", "toLocaleString",
   "toString"}

\* the paid, updatedAt and paymentProof of a function no handler has touched
Unassigned == [paid |-> FALSE, updatedAt |-> 0, paymentProof |-> NoProof]

ServerStart ==
  /\ sessions = EmptyState.sessions
  /\ events = EmptyState.events
  /\ stateWriteQueue = <<>>
  /\ eventWriteQueue = <<>>
  /\ stateFile = EmptyState
  /\ eventsFile = <<>>
  /\ awaiting = <<>>
  /\ response = NoResponse
  /\ acceptedProofs = {}
  /\ uuids = 0
  /\ unrecorded = 0
  /\ failures = 0
  /\ writing = {}
  /\ inherited = [id \in INHERITED_IDS |-> Unassigned]

\* the page before its first request: no session, export locked, the
\* buttons as index.html declares them
NoRequest == [state |-> "none", sessionId |-> "", ok |-> FALSE]

ClientStart ==
  /\ client = [currentSessionId |-> "", unlocked |-> FALSE, generateBtn |-> "enabled",
               proofBtn |-> "enabled", exportBtn |-> "disabled"]
  /\ requests = [button \in {"generate", "proof", "export"} |-> NoRequest]

Init ==
  /\ ServerStart
  /\ ClientStart
  /\ pc = "start"
  /\ input = NoInput
  /\ error = ""
  /\ pack = NoPack
  /\ prevPack = NoPack
  /\ builds = 0
  /\ now = 1
  /\ keywordsOut = NotCalled
  /\ materialsOut = NotCalled
  /\ passes = 0
  /\ title = ""
  /\ parseResult = NotCalled
  /\ \/ /\ op = "listing" /\ raw \in RawInputs /\ csvText = JsString("") /\ text = ""
        /\ parts = <<>> /\ parsePayload = JsonObject(<<>>)
     \/ /\ op = "csv" /\ raw = BaseInput /\ csvText \in CsvTexts /\ text = ""
        /\ parts = <<>> /\ parsePayload = JsonObject(<<>>)
     \/ /\ op = "spelling" /\ raw = BaseInput /\ csvText = JsString("") /\ text \in SpellingTexts
        /\ parts = <<>> /\ parsePayload = JsonObject(<<>>)
     \/ /\ op = "title" /\ raw = BaseInput /\ csvText = JsString("") /\ text = ""
        /\ parts \in TitlePartLists /\ parsePayload = JsonObject(<<>>)
     \/ /\ op = "parse" /\ raw = BaseInput /\ csvText = JsString("") /\ text = ""
        /\ parts = <<>> /\ parsePayload \in KeywordPayloads

\* sanitizeListingInput(raw)
Sanitize ==
  /\ op = "listing"
  /\ pc = "start"
  /\ LET r == sanitizeListingInput(raw)
     IN /\ pc' = IF r.ok THEN "sanitized" ELSE "rejected"
        /\ input' = r.val
        /\ error' = r.err
  /\ UNCHANGED <<op, raw, pack, prevPack, builds, now, csvVars, spellingVars>>
  /\ UNCHANGED <<titleVars, parseVars, clientVars, serverVars>>

\* buildListingPack(input); the clock advances between two calls
BuildPack ==
  /\ op = "listing"
  /\ pc \in {"sanitized", "built"}
  /\ builds < MaxBuilds
  /\ pack' = buildListingPack(input, now)
  /\ prevPack' = pack
  /\ builds' = builds + 1
  /\ pc' = "built"
  /\ now' = now + 1
  /\ UNCHANGED <<op, raw, input, error, csvVars, spellingVars>>
  /\ UNCHANGED <<titleVars, parseVars, clientVars, serverVars>>

\* parseKeywordCsv(csvText)
ParseKeywordCsv ==
  /\ op = "csv"
  /\ keywordsOut = NotCalled
  /\ keywordsOut' = parseKeywordCsv(csvText)
  /\ UNCHANGED <<op, listingVars, csvText, materialsOut, spellingVars>>
  /\ UNCHANGED <<titleVars, parseVars, clientVars, serverVars>>

\* parseMaterialsCsv(csvText)
ParseMaterialsCsv ==
  /\ op = "csv"
  /\ materialsOut = NotCalled
  /\ materialsOut' = parseMaterialsCsv(csvText)
  /\ UNCHANGED <<op, listingVars, csvText, keywordsOut, spellingVars>>
  /\ UNCHANGED <<titleVars, parseVars, clientVars, serverVars>>

\* text = britishSpelling(text, true)
BritishSpelling ==
  /\ op = "spelling"
  /\ passes < MaxPasses
  /\ text' = britishSpelling(text, TRUE)
  /\ passes' = passes + 1
  /\ UNCHANGED <<op, listingVars, csvVars>>
  /\ UNCHANGED <<titleVars, parseVars, clientVars, serverVars>>

\* title = compactTitle(parts)
ComposeTitle ==
  /\ op = "title"
  /\ title = ""
  /\ title' = compactTitle(parts)
  /\ UNCHANGED <<op, parts, listingVars, csvVars, spellingVars, parseVars, clientVars,
                 serverVars>>

\* the supporting keywords parseGenerateInput hands to sanitizeListingInput
parsedKeywords(payload) ==
  LET productType == asRequiredString(payload, "productType", 80)
      targetAudience == asOptionalString(payload, "targetAudience", 80)
      primaryKeyword == asOptionalString(payload, "primaryKeyword", 80)
  IN supportingKeywordsOf(payload, OrDefault(primaryKeyword.val, productType.val),
                          productType.val, OrDefault(targetAudience.val, "etsy shoppers"))

\* parseGenerateInput(payload)
ParseGenerateInput ==
  /\ op = "parse"
  /\ parseResult = NotCalled
  /\ \E outcome \in {parseGenerateInput(parsePayload)} :
       parseResult' = [ok |-> outcome.ok, err |-> outcome.err, val |-> outcome.val,
                       keywords |-> parsedKeywords(parsePayload)]
  /\ UNCHANGED <<op, parsePayload, listingVars, csvVars, spellingVars, titleVars, clientVars,
                 serverVars>>

Next ==
  \/ Sanitize
  \/ BuildPack
  \/ ParseKeywordCsv
  \/ ParseMaterialsCsv
  \/ BritishSpelling
  \/ ComposeTitle
  \/ ParseGenerateInput

Spec == Init /\ [][Next]_vars

\* ------------------------------------------------------------------------
\* The HTTP server (server.ts)
\* ------------------------------------------------------------------------
PAYMENT_URL == "https://buy.stripe.com/test_eVq6oH8mqf5WeQJ2jQ"

harnessVars ==
  <<op, raw, pc, input, error, pack, prevPack, builds, csvText, keywordsOut, materialsOut,
    text, passes, parts, title, parsePayload, parseResult, client, requests>>

\* the n-th value randomUUID() returns
uuid(n) ==
  "00000000-0000-4000-8000-" \o Rep("0", 12 - Len(numberToString(n))) \o numberToString(n)

\* a request body: JSON text of an object, a form, or text that fails to parse
JsonBody(fields) == [kind |-> "json", payload |-> JsonObject(fields), pairs |-> <<>>]

FormBody(pairs) == [kind |-> "form", payload |-> JsonObject(<<>>), pairs |-> pairs]

EmptyBody == [kind |-> "empty", payload |-> JsonObject(<<>>), pairs |-> <<>>]

MalformedBody == [kind |-> "malformed", payload |-> JsonObject(<<>>), pairs |-> <<>>]

ArrayBody == [kind |-> "array", payload |-> JsonObject(<<>>), pairs |-> <<>>]

OversizedBody == [kind |-> "oversized", payload |-> JsonObject(<<>>), pairs |-> <<>>]

\* JSON.parse of the body; an empty body is the empty object
parseBody(body) ==
  IF body.kind = "oversized" THEN Thrown("invalid_body_too_large", JsonObject(<<>>))
  ELSE IF body.kind = "empty" THEN Returned(JsonObject(<<>>))
  ELSE IF body.kind = "json" THEN Returned(body.payload)
  ELSE Thrown("invalid_json", JsonObject(<<>>))

\* the values of one key of a form, in order
formValues(pairs, key) ==
  LET hits == SelectSeq(pairs, LAMBDA p : p[1] = key)
  IN [i \in 1..Len(hits) |-> hits[i][2]]

\* URLSearchParams folded into an object: a repeated key becomes an array
parseFormBody(body) ==
  IF body.kind = "oversized" THEN Thrown("invalid_body_too_large", JsonObject(<<>>))
  ELSE Returned(
    [k \in PayloadKeys |->
       LET values == formValues(body.pairs, k)
       IN IF Len(values) = 0 THEN JsAbsent
          ELSE IF Len(values) = 1 THEN JsString(values[1])
          ELSE JsStringArray(values)])

\* a catch block that answers every failure with invalid_request
safeErrorCodeGeneric(message) == "invalid_request"

ErrorCodeChars == LowerSet \cup UpperSet \cup DigitSet \cup {"_"}

\* safeErrorCode: /^invalid_[a-zA-Z0-9_]+$/ or invalid_request
safeErrorCode(message) ==
  IF /\ Len(message) > 8
     /\ SubSeq(message, 1, 8) = "invalid_"
     /\ \A i \in 9..Len(message) :
          CharAt(message, i) \in ErrorCodeChars
    THEN message
    ELSE "invalid_request"

\* the details of an event, every value as JSON.stringify writes it
Details(fields) ==
  [k \in {"score", "tags", "tone", "briefIntent", "priceUsd", "route", "transactionId",
          "payerEmail", "format", "userAgent"} |->
     IF k \in DOMAIN fields THEN fields[k] ELSE ""]

\* what a handler suspended in recordEvent needs to answer: its route, the
\* values it holds, and the state of the two promises it awaits
Continuation(route, fields) ==
  LET base == [route |-> route, sessionId |-> "", format |-> "", pack |-> NoPack,
               preview |-> NoPreview, saveState |-> "pending", appendEvent |-> "pending"]
  IN [k \in DOMAIN base |-> IF k \in DOMAIN fields THEN fields[k] ELSE base[k]]

\* the response of a handler whose recordEvent call has returned
Completion(cont) ==
  LET session == sessions[cont.sessionId]
  IN IF cont.route = "generate"
       THEN Response("generate", 200,
                     [sessionId |-> cont.sessionId, pack |-> cont.pack, preview |-> cont.preview])
     ELSE IF cont.route = "quick_start"
       THEN Response("quick_start", 303,
                     [sessionId |-> cont.sessionId, location |-> "/quick-start/" \o cont.sessionId])
     ELSE IF cont.route = "quick_start_checkout"
       THEN Response("quick_start_checkout", 303,
                     [sessionId |-> cont.sessionId, location |-> PAYMENT_URL])
     ELSE IF cont.route = "quick_start_proof"
       THEN Response("quick_start_proof", 303,
                     [sessionId |-> cont.sessionId, location |-> "/quick-start/" \o cont.sessionId])
     ELSE IF cont.route = "quick_start_export"
       THEN Response("quick_start_export", 200,
                     [sessionId |-> cont.sessionId, format |-> "text",
                      content |-> buildExportText(session, now)])
     ELSE IF cont.route = "checkout"
       THEN Response("checkout", 200, [location |-> PAYMENT_URL])
     ELSE IF cont.route = "proof"
       THEN Response("proof", 200, [sessionId |-> cont.sessionId, paid |-> TRUE])
     ELSE IF cont.route = "export"
       THEN IF cont.format = "text"
              THEN Response("export", 200,
                            [sessionId |-> cont.sessionId, format |-> "text",
                             content |-> buildExportText(session, now)])
              ELSE Response("export", 200,
                            [sessionId |-> cont.sessionId, format |-> "json",
                             input |-> session.input, pack |-> session.pack])
     ELSE Response("landing", 200, [content |-> "index.html"])

\* the exploration lets in a request that records no event
CanAnswer ==
  /\ unrecorded < MaxUnrecorded
  /\ Len(stateWriteQueue) + Len(eventWriteQueue) <= MaxBusy

\* a handler answers without reaching recordEvent
Answer(r) ==
  /\ CanAnswer
  /\ response' = r
  /\ unrecorded' = unrecorded + 1
  /\ UNCHANGED <<sessions, events, stateWriteQueue, eventWriteQueue, stateFile, eventsFile,
                 awaiting, acceptedProofs, uuids, failures, writing, inherited, now, harnessVars>>

\* recordEvent up to its await: the event is pushed, saveState takes its
\* snapshot and queues its write, appendEvent queues its append, and the
\* handler is suspended.  sessionsNow is state.sessions as the handler left
\* it, calls the number of randomUUID() calls the handler made before.
recordEvent(eventType, source, selfTest, sessionId, details, sessionsNow, calls, cont) ==
  LET eventId == uuid(uuids + calls + 1)
      event == [eventId |-> eventId, eventType |-> eventType, timestamp |-> now,
                source |-> source, selfTest |-> selfTest, sessionId |-> sessionId,
                details |-> details]
      eventsNow == Append(events, event)
  IN /\ Len(events) < MaxEvents
     /\ sessions' = sessionsNow
     /\ events' = eventsNow
     /\ stateWriteQueue' =
          Append(stateWriteQueue,
                 [owner |-> eventId, payload |-> [sessions |-> sessionsNow, events |-> eventsNow]])
     /\ eventWriteQueue' = Append(eventWriteQueue, [owner |-> eventId, record |-> event])
     /\ awaiting' = (eventId :> cont) @@ awaiting
     /\ uuids' = uuids + calls + 1
     /\ now' = now + 1
     /\ response' = NoResponse
     /\ unrecorded' = 0
     /\ UNCHANGED <<stateFile, eventsFile, acceptedProofs, failures, writing, harnessVars>>

\* recordEvent called by a handler that assigned nothing outside state
RecordEvent(eventType, source, selfTest, sessionId, details, sessionsNow, calls, cont) ==
  /\ recordEvent(eventType, source, selfTest, sessionId, details, sessionsNow, calls, cont)
  /\ UNCHANGED inherited

\* one of the two promises of a suspended handler settles: Promise.all rejects
\* with the first rejection and resolves when both are fulfilled, and the
\* handler answers at once
Settle(owner, promise, ok) ==
  IF owner \notin DOMAIN awaiting
    THEN /\ response' = NoResponse
         /\ UNCHANGED <<awaiting, acceptedProofs>>
    ELSE LET cont == [awaiting[owner] EXCEPT ![promise] = IF ok THEN "fulfilled" ELSE "rejected"]
             others == [k \in DOMAIN awaiting \ {owner} |-> awaiting[k]]
         IN IF ~ok
              THEN /\ response' = Response(cont.route, 400, [error |-> safeErrorCode("EIO: i/o error, write")])
                   /\ awaiting' = others
                   /\ UNCHANGED acceptedProofs
              ELSE IF cont.saveState = "fulfilled" /\ cont.appendEvent = "fulfilled"
                THEN /\ response' = Completion(cont)
                     /\ awaiting' = others
                     /\ acceptedProofs' =
                          IF cont.route \in {"proof", "quick_start_proof"}
                            THEN acceptedProofs \cup {cont.sessionId}
                            ELSE acceptedProofs
                ELSE /\ awaiting' = (owner :> cont) @@ others
                     /\ response' = NoResponse
                     /\ UNCHANGED acceptedProofs

\* the bodies sent to POST /api/listings/generate
GenerateBodies ==
  {JsonBody([shopName |-> JsString("Copper Pine Studio"),
             productType |-> JsString("Ring Dish"),
             targetAudience |-> JsString("bridal party"),
             primaryKeyword |-> JsString("personalized ring dish"),
             supportingKeywords |->
               JsStringArray(<<"engagement gift", "bridal shower gift", "ceramic tray">>),
             materialsCsv |-> JsString("ceramic, glaze, gold paint"),
             tone |-> JsString(" Luxury "),
             priceBand |-> JsString("$20-$35"),
             processingTimeDays |-> JsNumber(3, 0),
             personalization |-> JsBoolean(FALSE),
             includeUkSpelling |-> JsBoolean(TRUE),
             source |-> JsString("Newsletter"),
             selfTest |-> JsString("yes"),
             briefIntent |-> JsString("manual_submit")]),
   EmptyBody,
   MalformedBody,
   ArrayBody,
   OversizedBody,
   JsonBody([productType |-> JsNumber(5, 0)]),
   JsonBody([productType |-> JsString("ring dish"), tone |-> JsString("bold")]),
   JsonBody([productType |-> JsString("ring dish"), processingTimeDays |-> JsNumber(0, 0)]),
   JsonBody([productType |-> JsString("ring dish"), supportingKeywordsCsv |-> JsString("!!!, ??")]),
   JsonBody([productType |-> JsString("!!!")])}

\* the forms sent to POST /quick-start
GenerateForms ==
  {FormBody(<<<<"productType", "Ring Dish">>,
              <<"supportingKeywordsCsv", "wedding gift, bridesmaid gift">>,
              <<"tone", "playful">>,
              <<"processingTimeDays", "5">>,
              <<"personalization", "on">>>>),
   FormBody(<<<<"productType", "  ">>>>),
   FormBody(<<<<"productType", "ring dish">>, <<"productType", "mug">>>>)}

\* payerEmail, transactionId, evidenceUrl and note of a payment proof
ProofFields ==
  {[payerEmail |-> JsString(" buyer@example.com "), transactionId |-> JsString("pi_3OK"),
    evidenceUrl |-> JsString("https://example.com/receipt")],
   [transactionId |-> JsString("pi_3OK")],
   [payerEmail |-> JsString("buyer@example.com"), transactionId |-> JsString(Rep("x", 121))]}

ProofForms ==
  {FormBody(<<<<"payerEmail", "buyer@example.com">>, <<"transactionId", "pi_3OK">>>>),
   FormBody(<<<<"payerEmail", "buyer@example.com">>>>)}

\* a well-formed session id that no session has
UNKNOWN_SESSION == "00000000-0000-4000-8000-ffffffffffff"

\* the session ids a request can name in its path
PathSessionIds == DOMAIN sessions \cup {UNKNOWN_SESSION}

\* the sessionId values a request can carry in its body
BodySessionIds ==
  {JsString(id) : id \in DOMAIN sessions \cup {UNKNOWN_SESSION, "short"}} \cup {JsAbsent}

\* the format of an export request
ExportFormats == {JsString("text"), JsAbsent, JsNumber(1, 0)}

\* the 404 page of the quick-start routes
SessionNotFound(route) == Response(route, 404, [error |-> "Session not found"])

\* no route matches and no static file is served
NotFound == Response("", 404, [error |-> "not_found"])

\* the catch block of the request handler
BadRequest(route, message) == Response(route, 400, [error |-> safeErrorCode(message)])

\* state.sessions[sessionId] is truthy
Found(sessionId) == sessionId \in DOMAIN sessions \/ sessionId \in INHERITED_IDS

\* state.sessions[sessionId] for a found id, as far as the proof handlers read
\* and assign it: an inherited function has no source and no selfTest
sessionOf(sessionId) ==
  IF sessionId \in DOMAIN sessions
    THEN [source |-> sessions[sessionId].source, selfTest |-> sessions[sessionId].selfTest,
          paid |-> sessions[sessionId].paid, updatedAt |-> sessions[sessionId].updatedAt,
          paymentProof |-> sessions[sessionId].paymentProof]
    ELSE [source |-> "", selfTest |-> FALSE, paid |-> inherited[sessionId].paid,
          updatedAt |-> inherited[sessionId].updatedAt,
          paymentProof |-> inherited[sessionId].paymentProof]

\* a proof handler that stores the proof and leaves the session locked
submitProofUnpaid(session, proof, timestamp) ==
  [session EXCEPT
     !.updatedAt = timestamp,
     !.paymentProof = [submittedAt |-> timestamp, payerEmail |-> proof.payerEmail,
                       transactionId |-> proof.transactionId,
                       evidenceUrl |-> proof.evidenceUrl, note |-> proof.note]]

\* the assignments of the proof handlers to the session
submitProof(session, proof, timestamp) ==
  [session EXCEPT
     !.paid = TRUE,
     !.updatedAt = timestamp,
     !.paymentProof = [submittedAt |-> timestamp, payerEmail |-> proof.payerEmail,
                       transactionId |-> proof.transactionId,
                       evidenceUrl |-> proof.evidenceUrl, note |-> proof.note]]

\* what the quick-start page shows of a session, and the session as the
\* rendering leaves it
renderQuickStartPage(session) ==
  LET shown == buildPreviewPack(session.pack)
      visible == IF session.paid THEN shown.pack ELSE shown.previewPack
  IN [page |->
        Response("quick_start_page", 200,
                 [sessionId |-> session.sessionId,
                  paid |-> session.paid,
                  pack |-> [NoPack EXCEPT
                              !.score = visible.score,
                              !.title = visible.title,
                              !.tags = visible.tags,
                              !.highlights = visible.highlights,
                              !.description = visible.description,
                              !.photoShotList = visible.photoShotList]]),
      session |-> [session EXCEPT !.pack = shown.pack]]

\* the exploration still has room for a generate request: for its session
\* and its event, or for its refusal
CanGenerate ==
  \/ CanAnswer
  \/ (Cardinality(DOMAIN sessions) < MaxSessions /\ Len(events) < MaxEvents)

\* parseGenerateInput of a parsed body; what parseBody threw is thrown on
parseRequest(payload) ==
  IF payload.ok THEN parseGenerateInput(payload.val) ELSE Thrown(payload.err, NoGenerateInput)

\* the generate handlers once parseGenerateInput has returned or thrown
Generated(route, parsed) ==
  IF ~parsed.ok
    THEN Answer(BadRequest(route, parsed.err))
    ELSE /\ Cardinality(DOMAIN sessions) < MaxSessions
         /\ Len(events) < MaxEvents
         /\ \E created \in {createListingSession(parsed.val.input, parsed.val.source,
                                                 parsed.val.selfTest, uuid(uuids + 1), now)} :
              RecordEvent("brief_generated", parsed.val.source, parsed.val.selfTest,
                          created.session.sessionId,
                          Details([score |-> numberToString(created.session.pack.score),
                                   tags |-> numberToString(Len(created.session.pack.tags)),
                                   tone |-> parsed.val.input.tone,
                                   briefIntent |-> parsed.val.briefIntent]),
                          (created.session.sessionId :> created.session) @@ sessions,
                          1,
                          Continuation(route,
                                       [sessionId |-> created.session.sessionId,
                                        pack |-> created.previewPack,
                                        preview |-> created.preview]))

\* the shared body of the two generate handlers, after the payload is parsed
Generate(route, payload) == \E parsed \in {parseRequest(payload)} : Generated(route, parsed)

\* POST /api/listings/generate
GenerateListing ==
  /\ op = "server"
  /\ CanGenerate
  /\ \E body \in GenerateBodies : Generate("generate", parseBody(body))

\* value is falsy: !payload.source
Falsy(value) == IsNullish(value) \/ (value.t = "string" /\ value.s = "")

\* the payload of POST /quick-start after the handler has set its briefIntent
\* and its default source
quickStartPayload(form) ==
  [form EXCEPT
     !.val = [@ EXCEPT
                !["briefIntent"] = JsString("no_js_quick_start"),
                !["source"] = IF Falsy(@) THEN JsString("web_form") ELSE @]]

\* POST /quick-start
QuickStart ==
  /\ op = "server"
  /\ CanGenerate
  /\ \E body \in GenerateForms : Generate("quick_start", quickStartPayload(parseFormBody(body)))

\* GET /quick-start/<id>
QuickStartPage ==
  /\ op = "server"
  /\ CanAnswer
  /\ \E sessionId \in PathSessionIds :
       IF sessionId \notin DOMAIN sessions
         THEN /\ response' = SessionNotFound("quick_start_page") /\ UNCHANGED sessions
       ELSE \E rendered \in {renderQuickStartPage(sessions[sessionId])} :
              /\ response' = rendered.page
              /\ sessions' = [sessions EXCEPT ![sessionId] = rendered.session]
  /\ unrecorded' = unrecorded + 1
  /\ UNCHANGED <<events, stateWriteQueue, eventWriteQueue, stateFile, eventsFile, awaiting,
                 acceptedProofs, uuids, failures, writing, inherited, now, harnessVars>>

\* the checkout handlers, once the session is found
Checkout(route, sessionId, payload, details) ==
  RecordEvent("checkout_started",
              normalizeSource(payload["source"], sessions[sessionId].source),
              parseBoolean(payload["selfTest"]) \/ sessions[sessionId].selfTest,
              sessionId,
              Details([priceUsd |-> numberToString(PRICE_USD)] @@ details),
              sessions, 0,
              Continuation(route, [sessionId |-> sessionId]))

\* GET /quick-start/<id>/checkout: source and selfTest come from the query
QuickStartCheckout ==
  /\ op = "server"
  /\ \E sessionId \in PathSessionIds :
       IF sessionId \notin DOMAIN sessions
         THEN Answer(SessionNotFound("quick_start_checkout"))
       ELSE Checkout("quick_start_checkout", sessionId,
                     JsonObject([source |-> JsNull, selfTest |-> JsNull]),
                     [route |-> "no_js_quick_start"])

\* an evaluation of the four proof fields that throws at the first invalid one
NoProofFields == [payerEmail |-> "", transactionId |-> "", evidenceUrl |-> "", note |-> ""]

parseProof(payload) ==
  LET payerEmail == asRequiredString(payload, "payerEmail", 160)
      transactionId == asRequiredString(payload, "transactionId", 120)
      evidenceUrl == asOptionalString(payload, "evidenceUrl", 300)
      note == asOptionalString(payload, "note", 400)
  IN IF ~payerEmail.ok THEN Thrown(payerEmail.err, NoProofFields)
     ELSE IF ~transactionId.ok THEN Thrown(transactionId.err, NoProofFields)
     ELSE IF ~evidenceUrl.ok THEN Thrown(evidenceUrl.err, NoProofFields)
     ELSE IF ~note.ok THEN Thrown(note.err, NoProofFields)
     ELSE Returned([payerEmail |-> payerEmail.val, transactionId |-> transactionId.val,
                    evidenceUrl |-> evidenceUrl.val, note |-> note.val])

\* the proof handlers, once the session is found
Proof(route, sessionId, payload, details) ==
  \E proof \in {parseProof(payload)} :
    IF ~proof.ok THEN Answer(BadRequest(route, proof.err))
    ELSE /\ recordEvent("payment_evidence_submitted",
                        normalizeSource(payload["source"], sessionOf(sessionId).source),
                        parseBoolean(payload["selfTest"]) \/ sessionOf(sessionId).selfTest,
                        sessionId,
                        Details([transactionId |-> proof.val.transactionId,
                                 payerEmail |-> proof.val.payerEmail] @@ details),
                        IF sessionId \in DOMAIN sessions
                          THEN [sessions EXCEPT
                                  ![sessionId] = submitProof(sessions[sessionId], proof.val, now)]
                          ELSE sessions,
                        0,
                        Continuation(route, [sessionId |-> sessionId]))
         /\ inherited' =
              IF sessionId \in DOMAIN sessions THEN inherited
              ELSE [inherited EXCEPT
                      ![sessionId] = submitProof(inherited[sessionId], proof.val, now)]

\* the handler of POST /quick-start/<id>/proof for one id and one form
QuickStartProofOf(sessionId, body) ==
  IF ~Found(sessionId)
    THEN Answer(SessionNotFound("quick_start_proof"))
  ELSE \E payload \in {parseFormBody(body)} :
         IF ~payload.ok THEN Answer(BadRequest("quick_start_proof", payload.err))
         ELSE Proof("quick_start_proof", sessionId, payload.val,
                    [route |-> "no_js_quick_start"])

\* POST /quick-start/<id>/proof
QuickStartProof ==
  /\ op = "server"
  /\ \E sessionId \in PathSessionIds, body \in ProofForms : QuickStartProofOf(sessionId, body)

\* the export handlers, once the session is found paid
Export(route, sessionId, payload, format, details) ==
  RecordEvent("listing_exported",
              normalizeSource(payload["source"], sessions[sessionId].source),
              parseBoolean(payload["selfTest"]) \/ sessions[sessionId].selfTest,
              sessionId,
              Details([format |-> format,
                       tags |-> numberToString(Len(sessions[sessionId].pack.tags)),
                       score |-> numberToString(sessions[sessionId].pack.score)] @@ details),
              sessions, 0,
              Continuation(route, [sessionId |-> sessionId, format |-> format]))

\* the handler of GET /quick-start/<id>/export.txt for one id
QuickStartExportOf(sessionId) ==
  IF sessionId \notin DOMAIN sessions
    THEN Answer(SessionNotFound("quick_start_export"))
  ELSE IF ~sessions[sessionId].paid
    THEN Answer(Response("quick_start_export", 402, [error |-> "Payment required"]))
  ELSE Export("quick_start_export", sessionId,
              JsonObject([source |-> JsNull, selfTest |-> JsNull]),
              "text", [route |-> "no_js_quick_start"])

\* GET /quick-start/<id>/export.txt
QuickStartExport ==
  /\ op = "server"
  /\ \E sessionId \in PathSessionIds : QuickStartExportOf(sessionId)

\* a JSON route that names a session, up to the lookup of the session:
\* the session id, or the response that refuses the request
FindSession(route, body) ==
  LET payload == parseBody(body)
      sessionId == IF payload.ok THEN parseSessionId(payload.val) ELSE Thrown(payload.err, "")
  IN IF ~sessionId.ok THEN Thrown("refused", BadRequest(route, sessionId.err))
     ELSE IF ~Found(sessionId.val)
       THEN Thrown("refused", Response(route, 404, [error |-> "session_not_found"]))
     ELSE Returned(sessionId.val)

\* POST /api/billing/checkout
BillingCheckout ==
  /\ op = "server"
  /\ \/ \E found \in {FindSession("checkout", MalformedBody)} : Answer(found.val)
     \/ \E id \in BodySessionIds :
          \E found \in {FindSession("checkout", JsonBody([sessionId |-> id]))} :
            IF ~found.ok THEN Answer(found.val)
            ELSE Checkout("checkout", found.val, JsonObject([sessionId |-> id]), <<>>)

\* the handler of POST /api/billing/proof for a body with one sessionId and
\* the proof fields of one member of proofs
BillingProofOf(id, proofs) ==
  \E found \in {FindSession("proof", JsonBody([sessionId |-> id]))} :
    IF ~found.ok THEN Answer(found.val)
    ELSE \E fields \in proofs :
           Proof("proof", found.val, JsonObject([sessionId |-> id] @@ fields), <<>>)

\* POST /api/billing/proof
BillingProof ==
  /\ op = "server"
  /\ \/ \E found \in {FindSession("proof", MalformedBody)} : Answer(found.val)
     \/ \E id \in BodySessionIds : BillingProofOf(id, ProofFields)

\* the handler of POST /api/listings/export for a body with one sessionId
ExportListingOf(id) ==
  \E found \in {FindSession("export", JsonBody([sessionId |-> id]))} :
    IF ~found.ok THEN Answer(found.val)
    ELSE IF ~sessions[found.val].paid
      THEN Answer(Response("export", 402, [error |-> "payment_required"]))
    ELSE \E requested \in ExportFormats :
           \E format \in {asOptionalString(JsonObject([format |-> requested]), "format", 20)} :
             IF ~format.ok THEN Answer(BadRequest("export", format.err))
             ELSE Export("export", found.val,
                         JsonObject([sessionId |-> id, format |-> requested]),
                         OrDefault(format.val, "json"), <<>>)

\* POST /api/listings/export
ExportListing ==
  /\ op = "server"
  /\ \/ \E found \in {FindSession("export", MalformedBody)} : Answer(found.val)
     \/ \E id \in BodySessionIds : ExportListingOf(id)

\* a request no route matches, /quick-start/<id> with an id the routes'
\* pattern refuses among them
NoRoute ==
  /\ op = "server"
  /\ Answer(NotFound)

\* GET /
LandingView ==
  /\ op = "server"
  /\ RecordEvent("landing_view", normalizeSource(JsNull, "direct"), parseBoolean(JsNull), "",
                 Details([userAgent |-> "unknown"]), sessions, 0,
                 Continuation("landing", <<>>))

\* chains without the chaining: the callback of every queued write may run
RunnableAtOnce(queue, called) == {i \in 1..Len(queue) : queue[i].owner \notin called}

\* a call the chain has made and that has not settled
Call(file, owner) == [file |-> file, owner |-> owner]

\* the writes of a chain whose then-callback may run now: the callback of a
\* write is chained on the promise of the write queued before it, so it is
\* the oldest write, unless its call is already made
Runnable(queue, called) ==
  IF queue # <<>> /\ queue[1].owner \notin called THEN {1} ELSE {}

\* the write of state.json at the head of stateWriteQueue, called by now or
\* in this step, completes
StateWriteSettles ==
  /\ op = "server"
  /\ stateWriteQueue # <<>>
  /\ writing' = writing \ {Call("state", Head(stateWriteQueue).owner)}
  /\ \E ok \in BOOLEAN :
       /\ ok \/ failures < MaxFailures
       /\ stateFile' = IF ok THEN Head(stateWriteQueue).payload ELSE stateFile
       /\ failures' = IF ok THEN failures ELSE failures + 1
       /\ Settle(Head(stateWriteQueue).owner, "saveState", ok)
  /\ stateWriteQueue' = Tail(stateWriteQueue)
  /\ UNCHANGED <<sessions, events, eventWriteQueue, eventsFile, uuids, unrecorded, now,
                 inherited, harnessVars>>

\* the append to events.jsonl at the head of eventWriteQueue, called by now
\* or in this step, completes
EventWriteSettles ==
  /\ op = "server"
  /\ eventWriteQueue # <<>>
  /\ writing' = writing \ {Call("events", Head(eventWriteQueue).owner)}
  /\ \E ok \in BOOLEAN :
       /\ ok \/ failures < MaxFailures
       /\ eventsFile' = IF ok THEN Append(eventsFile, Head(eventWriteQueue).record)
                        ELSE eventsFile
       /\ failures' = IF ok THEN failures ELSE failures + 1
       /\ Settle(Head(eventWriteQueue).owner, "appendEvent", ok)
  /\ eventWriteQueue' = Tail(eventWriteQueue)
  /\ UNCHANGED <<sessions, events, stateWriteQueue, stateFile, uuids, unrecorded, now,
                 inherited, harnessVars>>

\* the server after loadState() found no state file
ServerInit ==
  /\ op = "server"
  /\ raw = BaseInput
  /\ pc = "start"
  /\ input = NoInput
  /\ error = ""
  /\ pack = NoPack
  /\ prevPack = NoPack
  /\ builds = 0
  /\ now = 1
  /\ csvText = JsString("")
  /\ keywordsOut = NotCalled
  /\ materialsOut = NotCalled
  /\ text = ""
  /\ passes = 0
  /\ parts = <<>>
  /\ title = ""
  /\ parsePayload = JsonObject(<<>>)
  /\ parseResult = NotCalled
  /\ ClientStart
  /\ ServerStart

ServerNext ==
  \/ GenerateListing
  \/ QuickStart
  \/ QuickStartPage
  \/ QuickStartCheckout
  \/ QuickStartProof
  \/ QuickStartExport
  \/ BillingCheckout
  \/ BillingProof
  \/ ExportListing
  \/ LandingView
  \/ NoRoute
  \/ StateWriteSettles
  \/ EventWriteSettles

ServerSpec == ServerInit /\ [][ServerNext]_vars

\* ------------------------------------------------------------------------
\* The payment-proof routes, with invalid fields and ids no session has
\* ------------------------------------------------------------------------
ValidProof ==
  [payerEmail |-> JsString("buyer@example.com"), transactionId |-> JsString("pi_3OK"),
   evidenceUrl |-> JsString("https://example.com/receipt"), note |-> JsString("paid today")]

\* a valid proof, and proofs with one or two fields missing, empty, blank,
\* not a string or too long
ProofPayloads ==
  {ValidProof,
   [transactionId |-> JsString("pi_3OK")],
   [payerEmail |-> JsString(""), transactionId |-> JsString("pi_3OK")],
   [payerEmail |-> JsNumber(7, 0), transactionId |-> JsString("pi_3OK")],
   [payerEmail |-> JsString(Rep("e", 161)), transactionId |-> JsString("pi_3OK")],
   [payerEmail |-> JsString("buyer@example.com")],
   [payerEmail |-> JsString("buyer@example.com"), transactionId |-> JsString("  ")],
   [payerEmail |-> JsString("buyer@example.com"), transactionId |-> JsBoolean(TRUE)],
   [ValidProof EXCEPT !.evidenceUrl = JsNumber(1, 0)],
   [ValidProof EXCEPT !.note = JsStringArray(<<"paid">>)],
   [ValidProof EXCEPT !.transactionId = JsNull, !.note = JsNumber(0, 0)]}

\* the same through the form of the quick-start page
ProofFormBodies ==
  {FormBody(<<<<"payerEmail", "buyer@example.com">>, <<"transactionId", "pi_3OK">>,
              <<"evidenceUrl", "">>, <<"note", "paid today">>>>),
   FormBody(<<<<"payerEmail", "  ">>, <<"transactionId", "pi_3OK">>>>),
   FormBody(<<<<"payerEmail", "buyer@example.com">>>>),
   FormBody(<<<<"payerEmail", "buyer@example.com">>, <<"transactionId", Rep("x", 121)>>>>),
   FormBody(<<<<"payerEmail", "buyer@example.com">>, <<"transactionId", "pi_3OK">>,
              <<"note", Rep("n", 401)>>>>)}

\* the ids of the sessions, a well-formed id no session has, and a
\* well-formed id that names a member of Object.prototype
ProofSessionIds == DOMAIN sessions \cup {UNKNOWN_SESSION, "constructor"}

\* POST /api/billing/proof
SubmitProof ==
  /\ op = "server"
  /\ \E id \in ProofSessionIds : BillingProofOf(JsString(id), ProofPayloads)

\* POST /quick-start/<id>/proof
SubmitProofForm ==
  /\ op = "server"
  /\ \E id \in ProofSessionIds, body \in ProofFormBodies : QuickStartProofOf(id, body)

ProofNext ==
  \/ GenerateListing
  \/ SubmitProof
  \/ SubmitProofForm
  \/ StateWriteSettles
  \/ EventWriteSettles

ProofSpec == ServerInit /\ [][ProofNext]_vars

\* ------------------------------------------------------------------------
\* The browser client (site/app.js) and the server as the page sees it
\* ------------------------------------------------------------------------
\* what the client steps leave alone
clientFrame ==
  <<op, raw, pc, input, error, pack, prevPack, builds, now, csvText, keywordsOut, materialsOut,
    text, passes, parts, title, parsePayload, parseResult, sessions, events, stateWriteQueue,
    eventWriteQueue, stateFile, eventsFile, awaiting, response, unrecorded, failures, writing,
    inherited>>

Sent(sessionId) == [state |-> "sent", sessionId |-> sessionId, ok |-> FALSE]

Answered(sessionId, ok) == [state |-> "answered", sessionId |-> sessionId, ok |-> ok]

\* lockExport()
lockExport(page) == [page EXCEPT !.unlocked = FALSE, !.exportBtn = "disabled"]

\* the submit handler of listingForm (a preset button and runAutoPreview do
\* the same) up to the await in jsonRequest
ListingFormSubmit ==
  /\ op = "client"
  /\ client.generateBtn = "enabled"
  /\ requests["generate"].state = "none"
  /\ client' = [client EXCEPT !.generateBtn = "disabled"]
  /\ requests' = [requests EXCEPT !["generate"] = Sent("")]
  /\ UNCHANGED <<acceptedProofs, uuids, clientFrame>>

\* the server answers the generate request: a new session, or an error
GenerateServed ==
  /\ op = "client"
  /\ requests["generate"].state = "sent"
  /\ \/ /\ uuids < MaxClientSessions
        /\ requests' = [requests EXCEPT !["generate"] = Answered(uuid(uuids + 1), TRUE)]
        /\ uuids' = uuids + 1
     \/ /\ requests' = [requests EXCEPT !["generate"] = Answered("", FALSE)]
        /\ UNCHANGED uuids
  /\ UNCHANGED <<client, acceptedProofs, clientFrame>>

\* generatePack after its await, and the finally block of the submit handler
GenerateResponse ==
  /\ op = "client"
  /\ requests["generate"].state = "answered"
  /\ client' =
       IF requests["generate"].ok
         THEN [lockExport([client EXCEPT !.currentSessionId = requests["generate"].sessionId])
                 EXCEPT !.generateBtn = "enabled"]
         ELSE [client EXCEPT !.generateBtn = "enabled"]
  /\ requests' = [requests EXCEPT !["generate"] = NoRequest]
  /\ UNCHANGED <<acceptedProofs, uuids, clientFrame>>

\* the submit handler of proofForm up to the await in jsonRequest
ProofFormSubmit ==
  /\ op = "client"
  /\ client.proofBtn = "enabled"
  /\ client.currentSessionId # ""
  /\ requests["proof"].state = "none"
  /\ client' = [client EXCEPT !.proofBtn = "disabled"]
  /\ requests' = [requests EXCEPT !["proof"] = Sent(client.currentSessionId)]
  /\ UNCHANGED <<acceptedProofs, uuids, clientFrame>>

\* the server answers the proof request: accepted, or refused for its fields
ProofServed ==
  /\ op = "client"
  /\ requests["proof"].state = "sent"
  /\ \E ok \in BOOLEAN :
       /\ requests' = [requests EXCEPT !["proof"] = Answered(requests["proof"].sessionId, ok)]
       /\ acceptedProofs' =
            IF ok THEN acceptedProofs \cup {requests["proof"].sessionId} ELSE acceptedProofs
  /\ UNCHANGED <<client, uuids, clientFrame>>

\* the statements after `await jsonRequest("/api/billing/proof", ...)`
proofAccepted(page, sessionId) == [page EXCEPT !.unlocked = TRUE, !.exportBtn = "enabled"]

\* the submit handler of proofForm after its await, with its finally block
ProofResponse ==
  /\ op = "client"
  /\ requests["proof"].state = "answered"
  /\ client' =
       IF requests["proof"].ok
         THEN [proofAccepted(client, requests["proof"].sessionId) EXCEPT !.proofBtn = "enabled"]
         ELSE [client EXCEPT !.proofBtn = "enabled"]
  /\ requests' = [requests EXCEPT !["proof"] = NoRequest]
  /\ UNCHANGED <<acceptedProofs, uuids, clientFrame>>

\* the click handler of exportBtn up to the await in jsonRequest; a click
\* without a session or with export locked only sets a status line
ExportClick ==
  /\ op = "client"
  /\ client.exportBtn = "enabled"
  /\ client.currentSessionId # "" /\ client.unlocked
  /\ requests["export"].state = "none"
  /\ client' = [client EXCEPT !.exportBtn = "disabled"]
  /\ requests' = [requests EXCEPT !["export"] = Sent(client.currentSessionId)]
  /\ UNCHANGED <<acceptedProofs, uuids, clientFrame>>

\* the server answers the export request: the pack of a paid session, 402
\* for an unpaid one
ExportServed ==
  /\ op = "client"
  /\ requests["export"].state = "sent"
  /\ requests' =
       [requests EXCEPT
          !["export"] = Answered(requests["export"].sessionId,
                                 requests["export"].sessionId \in acceptedProofs)]
  /\ UNCHANGED <<client, acceptedProofs, uuids, clientFrame>>

\* the click handler of exportBtn after its await, with its finally block
ExportResponse ==
  /\ op = "client"
  /\ requests["export"].state = "answered"
  /\ client' = [client EXCEPT !.exportBtn = "enabled"]
  /\ requests' = [requests EXCEPT !["export"] = NoRequest]
  /\ UNCHANGED <<acceptedProofs, uuids, clientFrame>>

ClientInit ==
  /\ op = "client"
  /\ raw = BaseInput
  /\ pc = "start"
  /\ input = NoInput
  /\ error = ""
  /\ pack = NoPack
  /\ prevPack = NoPack
  /\ builds = 0
  /\ now = 1
  /\ csvText = JsString("")
  /\ keywordsOut = NotCalled
  /\ materialsOut = NotCalled
  /\ text = ""
  /\ passes = 0
  /\ parts = <<>>
  /\ title = ""
  /\ parsePayload = JsonObject(<<>>)
  /\ parseResult = NotCalled
  /\ ClientStart
  /\ ServerStart

ClientNext ==
  \/ ListingFormSubmit
  \/ GenerateServed
  \/ GenerateResponse
  \/ ProofFormSubmit
  \/ ProofServed
  \/ ProofResponse
  \/ ExportClick
  \/ ExportServed
  \/ ExportResponse

ClientSpec == ClientInit /\ [][ClientNext]_vars

\* ------------------------------------------------------------------------
\* The two write chains, a call and its completion told apart
\* ------------------------------------------------------------------------
Called(file) == {call.owner : call \in {c \in writing : c.file = file}}

\* the then-callback of a queued saveState runs: writeFile is called
StateWriteStarts ==
  /\ op = "server"
  /\ \E i \in Runnable(stateWriteQueue, Called("state")) :
       writing' = writing \cup {Call("state", stateWriteQueue[i].owner)}
  /\ response' = NoResponse
  /\ UNCHANGED <<sessions, events, stateWriteQueue, eventWriteQueue, stateFile, eventsFile,
                 awaiting, acceptedProofs, uuids, unrecorded, failures, now, inherited,
                 harnessVars>>

\* appendEvent without its chain: appendFile is called for any queued record
EventAppendStartsUnchained ==
  /\ op = "server"
  /\ \E i \in RunnableAtOnce(eventWriteQueue, Called("events")) :
       writing' = writing \cup {Call("events", eventWriteQueue[i].owner)}
  /\ response' = NoResponse
  /\ UNCHANGED <<sessions, events, stateWriteQueue, eventWriteQueue, stateFile, eventsFile,
                 awaiting, acceptedProofs, uuids, unrecorded, failures, now, inherited,
                 harnessVars>>

\* the then-callback of a queued appendEvent runs: appendFile is called
EventAppendStarts ==
  /\ op = "server"
  /\ \E i \in Runnable(eventWriteQueue, Called("events")) :
       writing' = writing \cup {Call("events", eventWriteQueue[i].owner)}
  /\ response' = NoResponse
  /\ UNCHANGED <<sessions, events, stateWriteQueue, eventWriteQueue, stateFile, eventsFile,
                 awaiting, acceptedProofs, uuids, unrecorded, failures, now, inherited,
                 harnessVars>>

\* the writeFile call in progress completes
StateWriteEnds ==
  /\ stateWriteQueue # <<>>
  /\ Head(stateWriteQueue).owner \in Called("state")
  /\ StateWriteSettles

\* the appendFile call in progress completes
EventAppendEnds ==
  /\ eventWriteQueue # <<>>
  /\ Head(eventWriteQueue).owner \in Called("events")
  /\ EventWriteSettles

ChainNext ==
  \/ GenerateListing
  \/ BillingProof
  \/ LandingView
  \/ StateWriteStarts
  \/ EventAppendStarts
  \/ StateWriteEnds
  \/ EventAppendEnds

ChainSpec == ServerInit /\ [][ChainNext]_vars

\* ------------------------------------------------------------------------
\* Vocabulary of the properties
\* ------------------------------------------------------------------------
Built == op = "listing" /\ pc = "built"

Accepted == op = "listing" /\ pc \in {"sanitized", "built"}

Rejected == op = "listing" /\ pc = "rejected"

Contains(s, sub) == \E i \in 1..(Len(s) - Len(sub) + 1) : SubSeq(s, i, i + Len(sub) - 1) = sub

\* the order in which sanitizeListingInput validates the fields that can fail
FieldOrder ==
  <<"shopName", "productType", "targetAudience", "primaryKeyword", "supportingKeywords",
    "materials", "tone", "priceBand", "processingTimeDays">>

Position(field) ==
  IF \E i \in 1..Len(FieldOrder) : FieldOrder[i] = field
    THEN CHOOSE i \in 1..Len(FieldOrder) : FieldOrder[i] = field
    ELSE 0

\* every field validated before the given one is valid
EarlierFieldsValid(field) ==
  sanitizeListingInput(
    [g \in DOMAIN BaseInput |->
       IF Position(g) < Position(field) THEN raw[g] ELSE BaseInput[g]]).ok

\* every field but the given one is valid
OtherFieldsValid(field) ==
  sanitizeListingInput([raw EXCEPT ![field] = BaseInput[field]]).ok

\* ------------------------------------------------------------------------
\* C1
\* ------------------------------------------------------------------------
\* C1: the title of every pack built from a sanitized input, as returned (after
\* the UK-spelling pass), has at most 140 characters.
TitleWithinLimit == Built => Len(pack.title) <= MAX_TITLE_LENGTH

\* ------------------------------------------------------------------------
\* C2
\* ------------------------------------------------------------------------
\* C2: the tags of every pack built from a sanitized input are at most 13,
\* each non-empty and at most 20 characters long, and pairwise distinct.
TagsWellFormed ==
  Built =>
    /\ Len(pack.tags) <= 13
    /\ \A i \in 1..Len(pack.tags) : pack.tags[i] # "" /\ Len(pack.tags[i]) <= 20
    /\ \A i, j \in 1..Len(pack.tags) : i # j => pack.tags[i] # pack.tags[j]

\* a pack with 13 tags whose candidate pool held an over-long candidate, a
\* repeated candidate and more candidates than were accepted
TagsWitness ==
  /\ Built
  /\ Len(pack.tags) = 13
  /\ LET pool == tagPool(input)
     IN /\ \E i \in 1..Len(pool) : Len(normalizeKeyword(pool[i])) > 20
        /\ \E i, j \in 1..Len(pool) : i < j /\ normalizeKeyword(pool[i]) = normalizeKeyword(pool[j])
        /\ Len(pool) > 13

\* ------------------------------------------------------------------------
\* C3
\* ------------------------------------------------------------------------
\* C3: the score of every pack built from a sanitized input is an integer
\* between 0 and 100.
ScoreInRange == Built => pack.score \in 0..100

\* the highest score: 13 tags, 8 or more keywords, personalization, 3 or more
\* materials, processing within 3 days
ScoreWitness ==
  /\ Built
  /\ pack.score = 93
  /\ Len(input.supportingKeywords) = MAX_KEYWORDS

\* ------------------------------------------------------------------------
\* C4
\* ------------------------------------------------------------------------
\* C4: the score is 55 + min(20, tags) + min(8, supporting keywords)
\* + (7 if personalization else 4) + (6 if 3 or more materials else 2)
\* + (4 if processing takes at most 3 days else 1), clamped to [0,100].
ScoreFormula ==
  Built =>
    LET sum == 55
               + (IF Len(pack.tags) < 20 THEN Len(pack.tags) ELSE 20)
               + (IF Len(input.supportingKeywords) < 8 THEN Len(input.supportingKeywords) ELSE 8)
               + (IF input.personalization THEN 7 ELSE 4)
               + (IF Len(input.materials) >= 3 THEN 6 ELSE 2)
               + (IF input.processingTimeDays <= 3 THEN 4 ELSE 1)
    IN pack.score = (IF sum < 0 THEN 0 ELSE IF sum > 100 THEN 100 ELSE sum)

\* a pack scored on the threshold of the materials bonus, with the keyword
\* bonus capped and the lower personalization and processing bonuses
ScoreFormulaWitness ==
  /\ Built
  /\ Len(input.materials) = 3
  /\ Len(input.supportingKeywords) > 8
  /\ ~input.personalization
  /\ input.processingTimeDays > 3

\* ------------------------------------------------------------------------
\* C5
\* ------------------------------------------------------------------------
SameCopy(p, q) ==
  /\ p.tags = q.tags
  /\ p.title = q.title
  /\ p.description = q.description
  /\ p.highlights = q.highlights
  /\ p.faq = q.faq
  /\ p.photoShotList = q.photoShotList
  /\ p.launchChecklist = q.launchChecklist
  /\ p.score = q.score

NoUsableKeyword(v) ==
  /\ v.t = "array"
  /\ \A i \in 1..Len(v.a) : v.a[i].t = "string" /\ normalizeKeyword(v.a[i].s) = ""

\* C6: with every other field valid, sanitizeListingInput throws
\* invalid_supportingKeywords and returns nothing when supportingKeywords is
\* empty or holds only entries that normalize to the empty string.
EmptyKeywordsRejected ==
  (op = "listing" /\ pc # "start" /\ NoUsableKeyword(raw.supportingKeywords)
     /\ OtherFieldsValid("supportingKeywords"))
    => (pc = "rejected" /\ error = "invalid_supportingKeywords" /\ input = NoInput)

\* a rejected input whose keyword list is not empty but has no usable entry
EmptyKeywordsWitness ==
  /\ Rejected
  /\ error = "invalid_supportingKeywords"
  /\ NoUsableKeyword(raw.supportingKeywords)
  /\ Len(raw.supportingKeywords.a) >= 2
  /\ OtherFieldsValid("supportingKeywords")

\* ------------------------------------------------------------------------
\* C7
\* ------------------------------------------------------------------------
\* the pieces between commas and newlines, normalized
CsvPieces(s) ==
  LET pieces == split(s, {",", "\n"})
  IN [i \in 1..Len(pieces) |-> normalizeKeyword(pieces[i])]

\* positions of the non-empty pieces that no earlier piece equals
FirstOccurrences(ps) ==
  {i \in 1..Len(ps) : ps[i] # "" /\ \A j \in 1..(i - 1) : ps[j] # ps[i]}

\* list is the first limit distinct non-empty pieces, in input order
IsDistinctPrefix(list, ps, limit) ==
  LET firsts == FirstOccurrences(ps)
      count == IF Cardinality(firsts) < limit THEN Cardinality(firsts) ELSE limit
  IN /\ Len(list) = count
     /\ \A k \in 1..count :
          \E i \in firsts : Cardinality({j \in firsts : j <= i}) = k /\ list[k] = ps[i]

\* C7: parseKeywordCsv returns the first 16 distinct non-empty normalized pieces
\* of its text, split on commas and newlines, in input order; it throws
\* invalid_keywordsCsv for a non-string and for a text without a non-empty
\* piece.  parseMaterialsCsv returns the empty list for such a text and throws
\* invalid_materialsCsv only for a non-string.
CsvParsing ==
  /\ keywordsOut # NotCalled =>
       IF csvText.t # "string"
         THEN ~keywordsOut.ok /\ keywordsOut.err = "invalid_keywordsCsv"
         ELSE IF FirstOccurrences(CsvPieces(csvText.s)) = {}
           THEN ~keywordsOut.ok /\ keywordsOut.err = "invalid_keywordsCsv"
           ELSE /\ keywordsOut.ok
                /\ Len(keywordsOut.val) <= 16
                /\ IsDistinctPrefix(keywordsOut.val, CsvPieces(csvText.s), 16)
                /\ csvText.s = "wedding gift, bridesmaid gift\nhandmade box" =>
                     keywordsOut.val = <<"wedding gift", "bridesmaid gift", "handmade box">>
  /\ materialsOut # NotCalled =>
       IF csvText.t # "string"
         THEN ~materialsOut.ok /\ materialsOut.err = "invalid_materialsCsv"
         ELSE /\ materialsOut.ok
              /\ FirstOccurrences(CsvPieces(csvText.s)) = {} => materialsOut.val = <<>>

\* a text of separators and noise only: the keyword parser throws, the
\* materials parser returns the empty list
CsvWitness ==
  /\ op = "csv"
  /\ csvText.t = "string"
  /\ Len(csvText.s) > 0
  /\ ~keywordsOut.ok
  /\ keywordsOut.err = "invalid_keywordsCsv"
  /\ materialsOut.ok
  /\ materialsOut.val = <<>>

\* ------------------------------------------------------------------------
\* C8
\* ------------------------------------------------------------------------
RespelledLines(lines) == [i \in 1..Len(lines) |-> britishSpelling(lines[i], TRUE)]

\* C8: a text that went through the UK-spelling transform is left unchanged
\* by the transform, and so is every text field of a pack built with
\* includeUkSpelling.
SpellingIdempotent ==
  /\ (op = "spelling" /\ passes >= 1) => britishSpelling(text, TRUE) = text
  /\ (Built /\ input.includeUkSpelling) =>
       /\ britishSpelling(pack.title, TRUE) = pack.title
       /\ britishSpelling(pack.description, TRUE) = pack.description
       /\ RespelledLines(pack.highlights) = pack.highlights
       /\ RespelledLines(pack.photoShotList) = pack.photoShotList
       /\ RespelledLines(pack.launchChecklist) = pack.launchChecklist
       /\ \A i \in 1..Len(pack.faq) :
            britishSpelling(pack.faq[i].answer, TRUE) = pack.faq[i].answer

\* a text the transform rewrote in two places, transformed a second time
SpellingWitness ==
  /\ op = "spelling"
  /\ passes = 2
  /\ Contains(text, "colour")
  /\ Contains(text, "organise")

\* ------------------------------------------------------------------------
\* C9
\* ------------------------------------------------------------------------
\* the value trimmed, its whitespace runs collapsed to one blank
CollapsedPhrase(v) == collapseWhitespace(trim(v.s))

PhraseBad(v) ==
  v.t = "string" /\ (CollapsedPhrase(v) = "" \/ Len(CollapsedPhrase(v)) > 80)

PhraseClean(s) ==
  /\ s # ""
  /\ Len(s) <= 80
  /\ CharAt(s, 1) \notin Whitespace
  /\ CharAt(s, Len(s)) \notin Whitespace
  /\ \A i \in 1..(Len(s) - 1) :
       ~(CharAt(s, i) \in Whitespace /\ CharAt(s, i + 1) \in Whitespace)

\* C9: sanitizeListingInput throws when a phrase field, trimmed and collapsed,
\* is empty or longer than 80 characters, with invalid_<field> for the first
\* such field; every phrase field of a returned input is non-empty, at most 80
\* characters, without leading or trailing whitespace or whitespace runs.
PhraseFieldsValidated ==
  /\ (op = "listing" /\ pc # "start") =>
       \A f \in PhraseFields :
         PhraseBad(raw[f]) =>
           /\ pc = "rejected"
           /\ EarlierFieldsValid(f) => error = "invalid_" \o f
  /\ Accepted => \A f \in PhraseFields : PhraseClean(input[f])

\* a rejected input whose last phrase field alone is too long
PhraseWitness ==
  /\ Rejected
  /\ error = "invalid_priceBand"
  /\ raw.priceBand.t = "string"
  /\ Len(CollapsedPhrase(raw.priceBand)) = 81
  /\ EarlierFieldsValid("priceBand")

\* ------------------------------------------------------------------------
\* C10
\* ------------------------------------------------------------------------
DaysValid(v) == v.t = "number" /\ v.f = 0 /\ 1 <= v.n /\ v.n <= 45

\* C10: sanitizeListingInput accepts processingTimeDays exactly when it is an
\* integer from 1 to 45 and returns it unchanged; any other value makes it
\* throw invalid_processingTimeDays.
DaysValidated ==
  (op = "listing" /\ pc # "start") =>
    /\ (DaysValid(raw.processingTimeDays) /\ EarlierFieldsValid("processingTimeDays")) =>
         (pc # "rejected" /\ input.processingTimeDays = raw.processingTimeDays.n)
    /\ ~DaysValid(raw.processingTimeDays) =>
         /\ pc = "rejected"
         /\ EarlierFieldsValid("processingTimeDays") => error = "invalid_processingTimeDays"

\* a fractional value inside the range, rejected
DaysWitness ==
  /\ Rejected
  /\ error = "invalid_processingTimeDays"
  /\ raw.processingTimeDays.t = "number"
  /\ raw.processingTimeDays.n = 2
  /\ raw.processingTimeDays.f = 5

\* ------------------------------------------------------------------------
\* C11
\* ------------------------------------------------------------------------
\* the text with surrounding whitespace removed and A-Z read as a-z
ToneName(v) == LET t == trim(v.s) IN foldRange(t, 1, Len(t))

\* C11: with the fields validated before it valid, sanitizeListingInput accepts
\* a string tone exactly when, ignoring letter case and surrounding whitespace,
\* it is playful, minimal, luxury or warm, and then stores that lower-case
\* name; any other string makes it throw invalid_tone.
ToneValidated ==
  (op = "listing" /\ pc # "start" /\ raw.tone.t = "string") =>
    IF ToneName(raw.tone) \in {"playful", "minimal", "luxury", "warm"}
      THEN OtherFieldsValid("tone") => (pc # "rejected" /\ input.tone = ToneName(raw.tone))
      ELSE /\ pc = "rejected"
           /\ EarlierFieldsValid("tone") => error = "invalid_tone"

\* an accepted tone written with a capital and surrounding blanks
ToneWitness ==
  /\ Accepted
  /\ raw.tone = JsString(" Luxury ")
  /\ input.tone = "luxury"

\* ------------------------------------------------------------------------
\* C12
\* ------------------------------------------------------------------------
\* the normalized forms of the entries of a raw list
NormalizedEntries(v) ==
  [i \in 1..Len(v.a) |-> IF v.a[i].t = "string" THEN normalizeKeyword(v.a[i].s) ELSE ""]

\* lower-case letters, digits, '&', '-' and single inner spaces only
KeywordClean(e) ==
  /\ e # ""
  /\ \A i \in 1..Len(e) : CharAt(e, i) \in LowerSet \cup DigitSet \cup {"&", "-", " "}
  /\ CharAt(e, 1) # " " /\ CharAt(e, Len(e)) # " "
  /\ ~Contains(e, "  ")

\* C12: after a successful sanitizeListingInput, supportingKeywords is exactly
\* the first 16, and materials exactly the first 12, distinct non-empty
\* normalized forms of the input entries, in first-seen order; every entry is
\* lower-case, holds only letters, digits, '&', '-' and single spaces, and no
\* entry occurs twice.
ListsDeduped ==
  Accepted =>
    /\ IsDistinctPrefix(input.supportingKeywords, NormalizedEntries(raw.supportingKeywords), 16)
    /\ IsDistinctPrefix(input.materials, NormalizedEntries(raw.materials), 12)
    /\ Len(input.supportingKeywords) <= 16 /\ Len(input.materials) <= 12
    /\ \A list \in {input.supportingKeywords, input.materials} :
         /\ \A i \in 1..Len(list) : KeywordClean(list[i])
         /\ \A i, j \in 1..Len(list) : i # j => list[i] # list[j]

\* a keyword list with repeats, noise and more than 16 distinct entries, cut
\* at 16
ListsWitness ==
  /\ Accepted
  /\ Len(input.supportingKeywords) = 16
  /\ Cardinality(FirstOccurrences(NormalizedEntries(raw.supportingKeywords))) > 16
  /\ Len(raw.supportingKeywords.a) > Cardinality(FirstOccurrences(NormalizedEntries(raw.supportingKeywords))) + 1

\* ------------------------------------------------------------------------
\* C13
\* ------------------------------------------------------------------------
\* the JavaScript type the ListingInput interface declares for a field
DeclaredType(field) ==
  IF field \in {"supportingKeywords", "materials"} THEN "array"
  ELSE IF field = "processingTimeDays" THEN "number"
  ELSE IF field \in {"personalization", "includeUkSpelling"} THEN "boolean"
  ELSE "string"

WrongTyped(field) ==
  \/ raw[field].t # DeclaredType(field)
  \/ raw[field].t = "array" /\ \E i \in 1..Len(raw[field].a) : raw[field].a[i].t # "string"

\* C13: with every other field valid, a value of the wrong type in any field
\* makes sanitizeListingInput throw that field's invalid_<field> code; no
\* wrong-typed value is accepted or coerced.
WrongTypeRejected ==
  (op = "listing" /\ pc # "start") =>
    \A field \in DOMAIN BaseInput :
      (WrongTyped(field) /\ OtherFieldsValid(field)) =>
        (pc = "rejected" /\ error = "invalid_" \o field)

\* ------------------------------------------------------------------------
\* C17
\* ------------------------------------------------------------------------
AmericanSpellings == {"color", "favorite", "customization", "personalization", "organize"}

\* the text holds one of the American spellings in some letter case
HasAmericanSpelling(s) ==
  LET folded == foldRange(s, 1, Len(s))
  IN \E word \in AmericanSpellings : Contains(folded, word)

\* the texts of a pack the UK-spelling pass runs over
SpelledTexts(p) ==
  {p.title, p.description}
    \cup {p.highlights[i] : i \in 1..Len(p.highlights)}
    \cup {p.photoShotList[i] : i \in 1..Len(p.photoShotList)}
    \cup {p.launchChecklist[i] : i \in 1..Len(p.launchChecklist)}
    \cup {p.faq[i].answer : i \in 1..Len(p.faq)}

\* C17: with includeUkSpelling true, none of the pack's title, description,
\* highlights, photo-shot lines, checklist lines and FAQ answers contains, in
\* any letter case, color, favorite, customization, personalization or
\* organize; with includeUkSpelling false these fields are exactly the composed
\* text, untransformed.
UkSpellingApplied ==
  Built =>
    IF input.includeUkSpelling
      THEN \A s \in SpelledTexts(pack) : ~HasAmericanSpelling(s)
      ELSE /\ pack.title = buildTitle(input)
           /\ pack.description = baseDescription(input)
           /\ pack.highlights = baseHighlights(input, pack.tags)
           /\ pack.photoShotList = basePhotoShotList(input)
           /\ pack.launchChecklist = baseLaunchChecklist
           /\ pack.faq[2].answer \in
                {"Include names, dates, or short text in the personalization field. A preview can be requested before production.",
                 "Yes. Message the shop before checkout with size, color, or packaging requests and we will confirm availability."}

\* a UK-spelled pack whose composed title, description and photo list held
\* American spellings, some of them capitalized
UkSpellingWitness ==
  /\ Built
  /\ input.includeUkSpelling
  /\ Contains(buildTitle(input), "Color")
  /\ Contains(pack.title, "colour")
  /\ Contains(pack.description, "organise")
  /\ Contains(pack.photoShotList[1], "favourite")

\* ------------------------------------------------------------------------
\* C18
\* ------------------------------------------------------------------------
\* the sanitized input with another tone
Retoned(tone) == [input EXCEPT !.tone = tone]

\* C18: the pack first built from a sanitized input and the pack of the same
\* input with another tone have the same title, tags, score, faq,
\* photoShotList and launchChecklist and the same highlights but the third,
\* the 'Tone set to' line; only the description and that highlight carry the
\* tone.
ToneOnlyWording ==
  (Built /\ builds = 1) =>
    \A tone \in ListingTones \ {input.tone} :
      LET other == buildListingPack(Retoned(tone), now)
      IN /\ other.title = pack.title
         /\ other.tags = pack.tags
         /\ other.score = pack.score
         /\ other.faq = pack.faq
         /\ other.photoShotList = pack.photoShotList
         /\ other.launchChecklist = pack.launchChecklist
         /\ Len(other.highlights) = Len(pack.highlights)
         /\ \A i \in 1..Len(pack.highlights) : i # 3 => other.highlights[i] = pack.highlights[i]

\* a luxury pack whose description and third highlight differ from those of
\* the same input with the warm tone
ToneWordingWitness ==
  /\ Built
  /\ builds = 1
  /\ input.tone = "luxury"
  /\ pack.highlights[3] = "Tone set to luxury for consistent brand voice"
  /\ Contains(pack.description, toneLine("luxury"))
  /\ ~Contains(pack.description, toneLine("warm"))
  /\ buildListingPack(Retoned("warm"), now).description # pack.description

\* ------------------------------------------------------------------------
\* C20
\* ------------------------------------------------------------------------
\* the words of the primary keyword that have three characters or more
KeywordWords(inp) == SelectSeq(split(inp.primaryKeyword, {" "}), LAMBDA w : Len(w) >= 3)

\* the candidate pool in its fixed order
CandidatePool(inp) ==
  LET words == KeywordWords(inp)
      suffix == <<"", " decor", " idea">>
  IN <<inp.primaryKeyword>>
       \o inp.supportingKeywords
       \o <<inp.productType \o " gift", inp.targetAudience \o " gift", inp.productType,
            inp.targetAudience,
            IF inp.personalization THEN "personalized gift" ELSE "ready to ship",
            "etsy seller">>
       \o [k \in 1..(3 * Len(words)) |-> words[((k - 1) \div 3) + 1] \o suffix[((k - 1) % 3) + 1]]
       \o <<"small business", "handmade", "gift for her", "gift for him", "home decor",
            "custom order">>

\* the normalized candidates, the over-long ones blanked
EligibleForms(pool) ==
  [i \in 1..Len(pool) |->
     LET normalized == normalizeKeyword(pool[i])
     IN IF Len(normalized) <= 20 THEN normalized ELSE ""]

\* C20: the tags of a pack are the candidate pool walked in its fixed order,
\* keeping each normalized candidate that is non-empty, at most 20 characters
\* long and not kept before, until 13 are kept; the tags keep pool order and
\* nothing follows the 13th.
TagsAreWalk ==
  Built => IsDistinctPrefix(pack.tags, EligibleForms(CandidatePool(input)), 13)

\* a pack whose tags come from all three parts of the pool, with an over-long
\* candidate and a repeated candidate skipped on the way
TagsWalkWitness ==
  /\ Built
  /\ LET forms == EligibleForms(CandidatePool(input))
     IN /\ \E i \in 1..Len(forms) : forms[i] = ""
        /\ \E i, j \in 1..Len(forms) : i < j /\ forms[i] # "" /\ forms[i] = forms[j]
  /\ \E i \in 1..Len(pack.tags) : pack.tags[i] = "handmade"
  /\ \E i \in 1..Len(pack.tags) : pack.tags[i] = KeywordWords(input)[1] \o " idea"

\* ------------------------------------------------------------------------
\* C14
\* ------------------------------------------------------------------------
\* the generate requests sent, each as the payload its handler parses
GenerateRequests ==
  {[route |-> "generate", payload |-> parseBody(body)] : body \in GenerateBodies}
    \cup {[route |-> "quick_start", payload |-> quickStartPayload(parseFormBody(body))] :
            body \in GenerateForms}

HasInvalidPrefix(code) == Len(code) > 8 /\ SubSeq(code, 1, 8) = "invalid_"

\* what every step of a generate handler does: it answers on its route
\* without recording an event, or it records a brief_generated event
GenerateStep(route) ==
  \/ response'.route = route /\ unrecorded' = unrecorded + 1
  \/ Len(events') > Len(events) /\ events'[Len(events')].eventType = "brief_generated"

\* C14: a generate request (POST /api/listings/generate or POST /quick-start)
\* whose input fails validation is answered 400 with the invalid_ code the
\* parser threw and leaves state.sessions and state.events as they were, so
\* no session and no brief_generated event; a request whose input sanitizes
\* creates a session that holds the pack built from that input and records a
\* brief_generated event.
InvalidGenerateRefused ==
  [][\A request \in GenerateRequests :
       GenerateStep(request.route) =>
         \A parsed \in {parseRequest(request.payload)} :
           Generated(request.route, parsed) =>
             IF ~parsed.ok
               THEN /\ response'.route = request.route
                    /\ response'.status = 400
                    /\ response'.error = parsed.err
                    /\ HasInvalidPrefix(parsed.err)
                    /\ sessions' = sessions
                    /\ events' = events
               ELSE /\ Len(events') = Len(events) + 1
                    /\ events'[Len(events')].eventType = "brief_generated"
                    /\ \E id \in DOMAIN sessions' \ DOMAIN sessions :
                         /\ events'[Len(events')].sessionId = id
                         /\ sessions'[id].input = parsed.val.input
                         /\ sessions'[id].pack = buildListingPack(parsed.val.input, now)
                         /\ Len(sessions'[id].pack.tags) > 0
                         /\ sessions'[id].pack.title # ""]_vars

\* a generate request refused for its tone while a session is stored
InvalidGenerateWitness ==
  /\ response.route = "generate"
  /\ response.status = 400
  /\ response.error = "invalid_tone"
  /\ DOMAIN sessions # {}
  /\ Len(events) > 0

\* ------------------------------------------------------------------------
\* C19
\* ------------------------------------------------------------------------
\* the fields of a session set once, by createListingSession
SessionCore(session) ==
  [sessionId |-> session.sessionId, createdAt |-> session.createdAt, source |-> session.source,
   selfTest |-> session.selfTest, input |-> session.input, pack |-> session.pack]

\* C19: a stored session keeps its pack and its input through every request
\* (generate, checkout, proof, export, the preview, the quick-start page) and
\* through every write: only paid, paymentProof and updatedAt of a session
\* ever change, and no session is dropped.
SessionPackFrozen ==
  [][\A id \in DOMAIN sessions :
       /\ id \in DOMAIN sessions'
       /\ SessionCore(sessions'[id]) = SessionCore(sessions[id])]_vars

\* the quick-start page of an unpaid session has just been rendered: it shows
\* the preview, cut short, and the stored pack is whole
SessionPackWitness ==
  /\ response.route = "quick_start_page"
  /\ response.status = 200
  /\ response.sessionId \in DOMAIN sessions
  /\ ~sessions[response.sessionId].paid
  /\ Len(response.pack.tags) < Len(sessions[response.sessionId].pack.tags)
  /\ Len(sessions[response.sessionId].pack.faq) > 1

\* ------------------------------------------------------------------------
\* C15
\* ------------------------------------------------------------------------
ExportRoutes == {"export", "quick_start_export"}

\* this step records an event of the given type
Records(eventType) ==
  Len(events') > Len(events) /\ events'[Len(events')].eventType = eventType

\* C15: POST /api/listings/export and GET /quick-start/<id>/export.txt answer
\* with the full pack of a session only if a payment-proof request for that
\* session was accepted, answered with success, before; a listing_exported
\* event is recorded for paid sessions only, and the 402 answer records no
\* event and changes no session.
ExportNeedsAcceptedProof ==
  [][/\ (response'.route \in ExportRoutes /\ response'.status = 200) =>
          response'.sessionId \in acceptedProofs
     /\ Records("listing_exported") => sessions[events'[Len(events')].sessionId].paid
     /\ (response'.route \in ExportRoutes /\ response'.status = 402) =>
          /\ events' = events
          /\ sessions' = sessions
          /\ \E id \in DOMAIN sessions : ~sessions[id].paid]_vars

\* ------------------------------------------------------------------------
\* C16
\* ------------------------------------------------------------------------
\* the export requests this step answers, as their handlers left them
AnsweredExports ==
  {awaiting[owner] : owner \in {o \in DOMAIN awaiting \ DOMAIN awaiting' :
                                  awaiting[o].route \in ExportRoutes}}

\* an export request for the session is let in: it records listing_exported
\* for it, or it is refused for its format
ExportLetIn(id) ==
  \/ Records("listing_exported") /\ events'[Len(events')].sessionId = id
  \/ response'.status = 400 /\ response'.error = "invalid_format"

\* the session stays paid and no export request for it is refused
StaysUnlocked(id) ==
  /\ id \in DOMAIN sessions'
  /\ sessions[id].paid
  /\ sessions'[id].paid
  /\ QuickStartExportOf(id) => ExportLetIn(id)
  /\ ExportListingOf(JsString(id)) => ExportLetIn(id)

NonEmptySegments(segments) ==
  LET kept == SelectSeq(segments, LAMBDA s : trim(s) # "")
  IN [i \in 1..Len(kept) |-> trim(kept[i])]

\* the number of characters of the ' | '-join of the first k segments
JoinedLength(segments, k) ==
  IF k = 0 THEN 0
  ELSE LET lengths == [i \in 1..k |-> Len(segments[i])]
           RECURSIVE Sum(_)
           Sum(i) == IF i = 0 THEN 0 ELSE lengths[i] + Sum(i - 1)
       IN Sum(k) + 3 * (k - 1)

\* the ' | '-join of the longest prefix of the non-empty segments that has at
\* most 140 characters; the first segment if that prefix is empty, and
\* 'Etsy listing' if there is no segment
LongestFittingJoin(segments) ==
  LET kept == NonEmptySegments(segments)
      longest == SetMax({k \in 0..Len(kept) : JoinedLength(kept, k) <= 140})
  IN IF Len(kept) = 0 THEN "Etsy listing"
     ELSE IF longest = 0 THEN kept[1]
     ELSE join(take(kept, longest), " | ")

\* the five segments buildListingPack hands to compactTitle
ListingSegments(inp) ==
  <<toTitleCase(inp.primaryKeyword),
    toTitleCase(inp.productType),
    IF inp.personalization THEN "Personalized" ELSE "Ready to Ship",
    "Gift for " \o toTitleCase(inp.targetAudience),
    toTitleCase(inp.supportingKeywords[1])>>

\* C21: the composed title is the ' | '-join of the longest prefix of the
\* non-empty segments [title-cased primaryKeyword, title-cased productType,
\* 'Personalized' or 'Ready to Ship', 'Gift for <title-cased targetAudience>',
\* title-cased first supportingKeyword] whose joined length is at most 140, so
\* nothing follows the first segment that would overflow; it is the first
\* segment verbatim if that one alone is too long and 'Etsy listing' if no
\* segment is non-empty.  A pack built without the UK spelling carries the
\* composed title as it is.
TitleIsLongestPrefix ==
  /\ (op = "title" /\ title # "") => title = LongestFittingJoin(parts)
  /\ Built =>
       /\ buildTitle(input) = LongestFittingJoin(ListingSegments(input))
       /\ ~input.includeUkSpelling => pack.title = buildTitle(input)

\* a title that stops at a segment that overflows although the next one would
\* fit
TitleStopsWitness ==
  /\ op = "title"
  /\ parts = <<Rep("a", 80), Rep("a", 80), "Ring Dish">>
  /\ title = Rep("a", 80)

\* ------------------------------------------------------------------------
\* C22
\* ------------------------------------------------------------------------
\* state.json as JSON.stringify(state) would write it now
MemoryState == [sessions |-> sessions, events |-> events]

\* at most one writeFile call is in progress, for the oldest queued write; the
\* queued writes are in the order of their saveState calls and each carries
\* the state as its call found it, the newest the state of now
WritesSerialized ==
  /\ Cardinality(Called("state")) <= 1
  /\ \A owner \in Called("state") :
       stateWriteQueue # <<>> /\ stateWriteQueue[1].owner = owner
  /\ \A i \in 1..Len(stateWriteQueue) :
       LET snapshot == stateWriteQueue[i].payload
           k == Len(snapshot.events)
       IN /\ k >= 1 /\ k <= Len(events)
          /\ snapshot.events = SubSeq(events, 1, k)
          /\ events[k].eventId = stateWriteQueue[i].owner
          /\ \A j \in 1..(i - 1) : Len(stateWriteQueue[j].payload.events) < k
  /\ stateWriteQueue # <<>> => stateWriteQueue[Len(stateWriteQueue)].payload = MemoryState

\* the write of state.json at the head of the queue completes in this step
StateWriteCompletes == Len(stateWriteQueue') < Len(stateWriteQueue)

\* C22: under any interleaving of requests at most one write of state.json is
\* in progress, the writes are performed in the order of the saveState calls
\* and each carries the snapshot of its call; a write that succeeds as the
\* last pending one leaves the in-memory state in the file; a write that
\* fails leaves the file as it was, is reported to the request that issued it
\* alone and leaves the writes queued after it in place.
StateWritesInOrder ==
  [][/\ WritesSerialized
     /\ WritesSerialized'
     /\ StateWriteCompletes =>
          LET write == Head(stateWriteQueue)
              waiting == DOMAIN awaiting \ {write.owner}
          IN /\ stateWriteQueue' = Tail(stateWriteQueue)
             /\ \A owner \in waiting :
                  owner \in DOMAIN awaiting' /\ awaiting'[owner] = awaiting[owner]
             /\ IF failures' = failures
                  THEN /\ stateFile' = write.payload
                       /\ stateWriteQueue' = <<>> => stateFile' = MemoryState'
                  ELSE /\ stateFile' = stateFile
                       /\ write.owner \in DOMAIN awaiting =>
                            /\ response'.status = 400
                            /\ response'.route = awaiting[write.owner].route]_vars

\* a write of state.json failed, the writes queued after it were performed,
\* and the file holds the in-memory state
StateWritesWitness ==
  /\ failures = 1
  /\ Len(eventsFile) = Len(events)
  /\ Len(events) >= 2
  /\ stateWriteQueue = <<>>
  /\ writing = {}
  /\ DOMAIN sessions # {}
  /\ stateFile = MemoryState

\* ------------------------------------------------------------------------
\* C23
\* ------------------------------------------------------------------------
Parsed == op = "parse" /\ parseResult # NotCalled

\* the payload carries a supportingKeywordsCsv string
CsvPresent == parsePayload["supportingKeywordsCsv"].t = "string"

\* the payload's supportingKeywordsCsv is missing or null
CsvMissing == IsNullish(parsePayload["supportingKeywordsCsv"])

\* the payload's supportingKeywordsCsv is a string that is empty once trimmed
CsvBlank == CsvPresent /\ trim(parsePayload["supportingKeywordsCsv"].s) = ""

\* none of the comma or newline separated pieces of the CSV is a keyword
CsvUnusable ==
  /\ CsvPresent
  /\ \A i \in DOMAIN CsvPieces(parsePayload["supportingKeywordsCsv"].s) :
       CsvPieces(parsePayload["supportingKeywordsCsv"].s)[i] = ""

\* the payload has no supportingKeywords key, or an empty array under it
NoKeywordArray ==
  \/ parsePayload["supportingKeywords"].t = "absent"
  \/ parsePayload["supportingKeywords"].t = "array" /\ parsePayload["supportingKeywords"].a = <<>>

\* the list is non-empty, duplicate-free, at most 8 long and made of the
\* seeds of primaryKeyword, productType and targetAudience
IsSynthesized(list) ==
  /\ Len(list) >= 1 /\ Len(list) <= 8
  /\ \A i, j \in 1..Len(list) : list[i] = list[j] => i = j
  /\ \E productType \in {trim(parsePayload["productType"].s)} :
     \E primary \in {OrDefault(trim(parsePayload["primaryKeyword"].s), productType)} :
     \E audience \in {OrDefault(trim(parsePayload["targetAudience"].s), "etsy shoppers")} :
       \A i \in 1..Len(list) :
         list[i] \in {normalizeKeywordSeed(primary), normalizeKeywordSeed(primary \o " gift"),
                      normalizeKeywordSeed(productType \o " gift"),
                      normalizeKeywordSeed(audience \o " gift"),
                      normalizeKeywordSeed(productType \o " etsy"), "handmade gift"}

InvalidField(value, maxLength, required) ==
  IF IsNullish(value) THEN required
  ELSE \/ value.t # "string"
       \/ required /\ trim(value.s) = ""
       \/ Len(trim(value.s)) > maxLength

\* the invalid_<field> errors of the invalid fields of a proof payload
ProofErrors(payload) ==
  {"invalid_" \o key : key \in
     {k \in {"payerEmail", "transactionId", "evidenceUrl", "note"} :
        InvalidField(payload[k],
                     IF k = "payerEmail" THEN 160 ELSE IF k = "transactionId" THEN 120
                     ELSE IF k = "evidenceUrl" THEN 300 ELSE 400,
                     k \in {"payerEmail", "transactionId"})}}

\* a step in which a proof request is answered or suspended in recordEvent
ProofStep ==
  \/ response'.route \in {"proof", "quick_start_proof"} /\ unrecorded' = unrecorded + 1
  \/ /\ Len(events') > Len(events)
     /\ events'[Len(events')].eventType = "payment_evidence_submitted"

\* nothing the server holds in memory has changed
NothingChanges ==
  /\ sessions' = sessions
  /\ events' = events
  /\ inherited' = inherited

\* what the claim asks of a proof request for this id and payload
ProofOutcome(id, payload) ==
  /\ (id \in DOMAIN sessions /\ ProofErrors(payload) # {}) =>
       /\ response'.status = 400
       /\ response'.error \in ProofErrors(payload)
       /\ NothingChanges
  /\ id \notin DOMAIN sessions => (response'.status = 404 /\ NothingChanges)

\* C24: a proof request with a missing, empty, non-string or over-long
\* payerEmail or transactionId, or an invalid evidenceUrl or note, is answered
\* with the invalid_<field> error, changes no session and records no event; a
\* proof request for an id that no session has is answered 404 and changes
\* nothing.
InvalidProofChangesNothing ==
  [][ProofStep =>
       /\ \A id \in ProofSessionIds, fields \in ProofPayloads :
            BillingProofOf(JsString(id), {fields}) => ProofOutcome(id, JsonObject(fields))
       /\ \A id \in ProofSessionIds, body \in ProofFormBodies :
            QuickStartProofOf(id, body) => ProofOutcome(id, parseFormBody(body).val)]_vars

\* the same for the ids that do not name a member of Object.prototype
OwnIdProofChangesNothing ==
  [][ProofStep =>
       /\ \A id \in ProofSessionIds \ INHERITED_IDS, fields \in ProofPayloads :
            BillingProofOf(JsString(id), {fields}) => ProofOutcome(id, JsonObject(fields))
       /\ \A id \in ProofSessionIds \ INHERITED_IDS, body \in ProofFormBodies :
            QuickStartProofOf(id, body) => ProofOutcome(id, parseFormBody(body).val)]_vars

\* ------------------------------------------------------------------------
\* C25
\* ------------------------------------------------------------------------
LockMarkers ==
  {"unlock full pack", "Unlock the remaining quality notes after checkout.",
   "Unlock the full 8-shot plan after checkout.",
   "Unlock the remaining launch checklist after checkout."}

\* the entries of a shown list that come from the pack: all but a lock marker
\* at its end
RealEntries(shown) ==
  IF Len(shown) > 0 /\ shown[Len(shown)] \in LockMarkers
    THEN SubSeq(shown, 1, Len(shown) - 1)
    ELSE shown

\* shown exposes at most the first count entries of stored, and a lock marker
\* only when stored has more than count entries
ExposesAtMost(shown, stored, count) ==
  /\ Len(RealEntries(shown)) <= MinOf(count, Len(stored))
  /\ RealEntries(shown) = SubSeq(stored, 1, Len(RealEntries(shown)))
  /\ RealEntries(shown) # shown => Len(stored) > count

\* the five lists of shown expose at most 5, 2, 1, 3 and 2 entries of stored
PreviewOf(shown, stored) ==
  /\ ExposesAtMost(shown.tags, stored.tags, 5)
  /\ ExposesAtMost(shown.highlights, stored.highlights, 2)
  /\ Len(shown.faq) <= 1 /\ shown.faq = SubSeq(stored.faq, 1, Len(shown.faq))
  /\ ExposesAtMost(shown.photoShotList, stored.photoShotList, 3)
  /\ ExposesAtMost(shown.launchChecklist, stored.launchChecklist, 2)

\* hiddenCounts is, list by list, the stored length minus the real entries shown
HiddenCountsOf(hiddenCounts, shown, stored) ==
  /\ hiddenCounts.tags = Len(stored.tags) - Len(RealEntries(shown.tags))
  /\ hiddenCounts.highlights = Len(stored.highlights) - Len(RealEntries(shown.highlights))
  /\ hiddenCounts.faq = Len(stored.faq) - Len(shown.faq)
  /\ hiddenCounts.photoShotList =
       Len(stored.photoShotList) - Len(RealEntries(shown.photoShotList))
  /\ hiddenCounts.launchChecklist =
       Len(stored.launchChecklist) - Len(RealEntries(shown.launchChecklist))

GenerateAnswered == response.route = "generate" /\ response.status = 200

UnpaidPageShown ==
  /\ response.route = "quick_start_page" /\ response.status = 200
  /\ ~sessions[response.sessionId].paid

\* C25: the pack a generate request returns, and the pack the quick-start
\* page shows while the session is unpaid, expose at most the first 5 tags, 2
\* highlights, 1 FAQ pair, 3 photo-shot lines and 2 checklist lines of the
\* stored pack, plus one lock marker per truncated list; hiddenCounts is the
\* stored length minus the number of real entries shown; and the returned
\* tags list has at least 5 entries.
PreviewIsLimited ==
  /\ GenerateAnswered =>
       /\ PreviewOf(response.pack, sessions[response.sessionId].pack)
       /\ HiddenCountsOf(response.preview.hiddenCounts, response.pack,
                         sessions[response.sessionId].pack)
       /\ Len(response.pack.tags) >= 5
  /\ UnpaidPageShown => PreviewOf(response.pack, sessions[response.sessionId].pack)

\* a generate request answered with 5 of the stored tags and the lock marker
PreviewWitness ==
  /\ GenerateAnswered
  /\ Len(response.pack.tags) = 6
  /\ response.preview.hiddenCounts.tags = Len(sessions[response.sessionId].pack.tags) - 5
  /\ response.preview.hiddenCounts.tags >= 3
  /\ response.preview.hiddenCounts.faq >= 1

\* ------------------------------------------------------------------------
\* C26
\* ------------------------------------------------------------------------
\* the records of the appends that have not completed, in queue order
QueuedRecords == [i \in 1..Len(eventWriteQueue) |-> eventWriteQueue[i].record]

\* every event recorded so far is in the file or waits in the queue: a failed
\* append drops its record from the queue without writing it
NoAppendFailed == Len(eventsFile) + Len(eventWriteQueue) = Len(events)

\* C26: in every interleaving, as long as no append has failed, at most one
\* appendFile call is in progress, the lines of events.jsonl followed by the
\* records still queued are the events of state.events in their order, and no
\* event occurs twice: every event is appended once, in the order of
\* state.events.
EventsAppendedInOrder ==
  NoAppendFailed =>
    /\ Cardinality(Called("events")) <= 1
    /\ eventsFile \o QueuedRecords = events
    /\ \A i, j \in 1..Len(events) : events[i].eventId = events[j].eventId => i = j

\* two events are in the file, the append of a third is in progress while
\* the state.json write of an earlier request is still queued
EventsAppendedWitness ==
  /\ NoAppendFailed
  /\ Len(eventsFile) = 2
  /\ Len(events) = 3
  /\ Called("events") # {}
  /\ Len(stateWriteQueue) >= 2

\* ------------------------------------------------------------------------
\* C27
\* ------------------------------------------------------------------------
\* the score computed without the cap on the tag count and without the clamp
UncappedScore ==
  55 + Len(pack.tags)
     + (IF Len(input.supportingKeywords) < 8 THEN Len(input.supportingKeywords) ELSE 8)
     + (IF input.personalization THEN 7 ELSE 4)
     + (IF Len(input.materials) >= 3 THEN 6 ELSE 2)
     + (IF input.processingTimeDays <= 3 THEN 4 ELSE 1)

\* C27: the pack of every sanitized input has at least 8 tags, its score lies
\* between 71 and 93, and the score is the sum computed without the cap
\* min(20, tag count) and without the clamp to 0..100.
TagsFloorBoundsScore ==
  Built =>
    /\ Len(pack.tags) >= 8
    /\ pack.score >= 71 /\ pack.score <= 93
    /\ pack.score = UncappedScore

\* the lowest score: the 8 tags no input can lose, one keyword, no
\* personalization, no materials, more than 3 days
TagsFloorWitness ==
  /\ Built
  /\ Len(pack.tags) = 8
  /\ pack.score = 71

\* ------------------------------------------------------------------------
\* C28
\* ------------------------------------------------------------------------
\* a ListingInput handed to sanitizeListingInput as it was returned
AsRaw(sanitized) ==
  [shopName |-> JsString(sanitized.shopName),
   productType |-> JsString(sanitized.productType),
   targetAudience |-> JsString(sanitized.targetAudience),
   primaryKeyword |-> JsString(sanitized.primaryKeyword),
   supportingKeywords |-> JsStringArray(sanitized.supportingKeywords),
   materials |-> JsStringArray(sanitized.materials),
   tone |-> JsString(sanitized.tone),
   priceBand |-> JsString(sanitized.priceBand),
   processingTimeDays |-> JsNumber(sanitized.processingTimeDays, 0),
   personalization |-> JsBoolean(sanitized.personalization),
   includeUkSpelling |-> JsBoolean(sanitized.includeUkSpelling)]

\* C28: for every raw input on which sanitizeListingInput succeeds, applying
\* it to its own output succeeds as well and returns the same input, field
\* for field.
SanitizeIdempotent ==
  Accepted =>
    /\ sanitizeListingInput(AsRaw(input)).ok
    /\ sanitizeListingInput(AsRaw(input)).val = input

\* the same for the outputs whose productType and targetAudience are within
\* the 80 characters the phrase fields are limited to
SanitizeIdempotentWithinLimit ==
  (Accepted /\ Len(input.productType) <= MAX_PHRASE_LENGTH
            /\ Len(input.targetAudience) <= MAX_PHRASE_LENGTH) =>
    /\ sanitizeListingInput(AsRaw(input)).ok
    /\ sanitizeListingInput(AsRaw(input)).val = input

\* ------------------------------------------------------------------------
\* C29
\* ------------------------------------------------------------------------
\* C29: in the browser client, in every interleaving of the generate, proof
\* and export handlers, whenever unlocked is true the session named by
\* currentSessionId is one whose payment proof the server has accepted.
UnlockedMeansPaid ==
  (op = "client" /\ client.unlocked) => client.currentSessionId \in acceptedProofs

\* ------------------------------------------------------------------------
\* C30
\* ------------------------------------------------------------------------
SessionChangingRoutes == {"generate", "quick_start", "proof", "quick_start_proof"}

\* the step answers a generate or proof request with an error status
ErrorAnswered ==
  /\ response'.route \in SessionChangingRoutes
  /\ response'.status >= 400

\* the handlers whose recordEvent call fails in this step
FailedHandlers == DOMAIN awaiting \ DOMAIN awaiting'

\* the event a suspended handler recorded
EventOf(owner) == events[CHOOSE i \in 1..Len(events) : events[i].eventId = owner]

\* state.sessions shows nothing of the request of the suspended handler: not
\* the session a generate request creates, not the proof a proof request
\* stores with the paid flag
NoTraceOf(owner) ==
  IF awaiting[owner].route \in {"generate", "quick_start"}
    THEN awaiting[owner].sessionId \notin DOMAIN sessions'
    ELSE sessions'[awaiting[owner].sessionId].paymentProof.submittedAt
           # EventOf(owner).timestamp

\* C30: a generate or payment-proof request answered with an error status
\* leaves state.sessions unchanged: no session is added and no paid flag or
\* paymentProof changes, also when the error comes from a failed write of
\* state.json or events.jsonl during recordEvent.
ErrorsLeaveSessions ==
  [][ErrorAnswered =>
       /\ sessions' = sessions
       /\ \A owner \in FailedHandlers : NoTraceOf(owner)]_vars

\* the same for the requests refused before recordEvent is called
RefusalsLeaveSessions ==
  [][(ErrorAnswered /\ FailedHandlers = {}) => sessions' = sessions]_vars

====
